---- MODULE Spec2Model ----
(***************************************************************************)
(* A model of mlenvdoctor: the retry decorator (retry.py), the parallel    *)
(* runner (parallel.py), the probe functions and diagnose_env              *)
(* (diagnose.py), the renderers and exporters of the record list           *)
(* (diagnose.py, export.py), the command line (cli.py) and the validators  *)
(* (validators.py).  Each subsystem has its own variables and its own      *)
(* specification; the variables of the other subsystems stay idle.         *)
(***************************************************************************)
EXTENDS Integers, Sequences, FiniteSets, TLC

VARIABLES
    \* ---- retry.wrapper (retry.py) ----
    retry_pc,        \* "idle" | "loop" | "done": position of the wrapper
    retry_cfg,       \* the decorator's arguments
    attempt,         \* the loop variable of `for attempt in range(...)`
    current_delay,   \* retry.py:42
    last_exception,  \* retry.py:43
    retry_calls,     \* outcome of every invocation of func, in order
    retry_log,       \* observable events: on_retry calls, sleeps, log lines
    retry_outcome,   \* how the wrapper ended
    \* ---- run_parallel / run_parallel_with_results (parallel.py) ----
    par_pc,          \* "idle" | "submitted" | "iter" | "exit" | "done"
    par_fn,          \* which of the two functions was called, and by whom
    par_cfg,         \* max_workers and whether a timeout was given
    items_list,      \* parallel.py:37, 97
    fut_state,       \* per future: "pending" | "running" | "finished"
    fut_result,      \* per future: what its call returned or raised
    finished,        \* as_completed: the futures it is about to yield
    pending,         \* as_completed: the futures not yet yielded
    waiter_finished, \* as_completed: futures finished since the last wake-up
    results,         \* parallel.py:47, 105
    completed,       \* parallel.py:48
    par_outcome,     \* what the function returns or raises
    \* ---- one call of a probe function (diagnose.py) ----
    probe_pc,        \* "idle" | "done"
    probe_name,      \* the probe called
    probe_env,       \* what its external calls do
    probe_result,    \* the list it returned or the exception it raised
    \* ---- diagnose_env (diagnose.py) ----
    diag_pc,         \* "idle" | "core" | "extended" | "done"
    diag_args,       \* full and parallel
    diag_world,      \* per probe: what a call of it does in this run
    check_i,         \* sequential mode: index of the next check_func
    all_issues,      \* diagnose.py:464
    diag_log,        \* the logger.error and logger.warning calls
    diag_outcome,    \* what diagnose_env returns or raises
    \* ---- observed by both ----
    calls,           \* per item or probe: how often func was called on it
    ended,           \* per item or probe: how many of these calls ended
    \* ---- the record list and its renderers (diagnose.py, export.py) ----
    exp_pc,          \* "idle" | "ready": a record list is at hand
    issue_list,      \* `issues`: the list the renderers are called on
    files,           \* per output file: its content, or NoFile
    first_files,     \* per output file: the content of its first export
    table,           \* what the last print_diagnostic_table call printed
    last_row,        \* what the last to_row call returned
    now,             \* the clock datetime.now() reads
    \* ---- one command-line invocation (cli.py) ----
    cli_pc,          \* position in main and diagnose
    cli_args,        \* the options of the invocation
    cli_log,         \* what the invocation did, in order
    exit_code,       \* the exit code, NoExit while it runs
    logger_level,    \* the level setup_logger gave the logger
    \* ---- one call of a validator (validators.py) ----
    val_pc,          \* "idle" | "done"
    val_fn,          \* the validator called
    val_arg,         \* its argument(s)
    val_result,      \* what it returned or raised
    \* ---- one call of run_command (utils.py) ----
    cmd_pc,          \* "idle" | "validate" | "run" | "done"
    cmd_args,        \* cmd, check and timeout
    cmd_log,         \* the calls run_command has made, in order
    cmd_outcome,     \* what run_command returned or raised
    \* ---- the logger "mlenvdoctor" (logger.py) ----
    log_pc,          \* "idle" | "ready": setup_logger has run
    log_level,       \* logger.level
    handlers,        \* logger.handlers: each handler's kind and level
    emitted,         \* the levels of the messages the program has logged
    console_lines,   \* what the console handler has written
    file_lines       \* what the file handler has written

retryVars == <<retry_pc, retry_cfg, attempt, current_delay, last_exception,
               retry_calls, retry_log, retry_outcome>>

parVars == <<par_pc, par_fn, par_cfg, items_list, fut_state, fut_result, finished,
             pending, waiter_finished, results, completed, par_outcome>>

probeVars == <<probe_pc, probe_name, probe_env, probe_result>>

diagVars == <<diag_pc, diag_args, diag_world, check_i, all_issues, diag_log, diag_outcome>>

callVars == <<calls, ended>>

exportVars == <<exp_pc, issue_list, files, first_files, table, last_row, now>>

cliVars == <<cli_pc, cli_args, cli_log, exit_code, logger_level>>

valVars == <<val_pc, val_fn, val_arg, val_result>>

cmdVars == <<cmd_pc, cmd_args, cmd_log, cmd_outcome>>

logVars == <<log_pc, log_level, handlers, emitted, console_lines, file_lines>>

utilVars == <<cmdVars, logVars>>

restVars == <<exportVars, cliVars, valVars, utilVars>>

vars == <<retryVars, parVars, probeVars, diagVars, callVars, restVars>>

----------------------------------------------------------------------------
(* Bounds of the model *)

MaxAttempts == 3
MaxDelay == 2
MaxBackoff == 3
MaxItems == 3
MaxWorkers == 2
MaxFaulty == 1
MaxRecords == 2
MaxClock == 2
MaxCmdLen == 2
MaxNameLen == 3
MaxMessages == 2

----------------------------------------------------------------------------
(* Python exceptions: the part of the class hierarchy the code depends on *)

ExcTypes == {"BaseException", "Exception", "KeyboardInterrupt", "OSError",
             "ConnectionError", "TimeoutError", "ValueError", "ImportError",
             "RuntimeError", "DiagnosticError", "ConfigurationError"}

Parent(t) ==
    CASE t = "Exception"         -> "BaseException"
      [] t = "KeyboardInterrupt" -> "BaseException"
      [] t = "OSError"           -> "Exception"
      [] t = "ConnectionError"   -> "OSError"
      [] t = "TimeoutError"      -> "OSError"
      [] t = "ValueError"        -> "Exception"
      [] t = "ImportError"       -> "Exception"
      [] t = "RuntimeError"      -> "Exception"
      [] t = "DiagnosticError"   -> "Exception"
      [] t = "ConfigurationError" -> "Exception"
      [] OTHER                   -> "BaseException"

RECURSIVE IsSubclass(_, _)
IsSubclass(t, u) ==
    IF t = u THEN TRUE
    ELSE IF t = "BaseException" THEN FALSE
    ELSE IsSubclass(Parent(t), u)

\* An exception object: its class, the invocation that raised it, and its
\* __cause__ (the class and invocation of the exception it was raised from).
Exc(t, k) == [type |-> t, id |-> k, cause_type |-> "None", cause_id |-> 0]
NoExc == Exc("None", 0)
RaiseFrom(t, cause) ==
    [type |-> t, id |-> 0, cause_type |-> cause.type, cause_id |-> cause.id]

----------------------------------------------------------------------------
(* retry.py *)

\* `except exceptions as e` with a tuple of classes
IsListedMutant(e, exceptions) == TRUE
IsListed(e, exceptions) == \E i \in 1..Len(exceptions) : IsSubclass(e.type, exceptions[i])

\* range(1, max_attempts + 1)
LoopRangeMutant(max_attempts) == 1..(max_attempts + 1)
LoopRange(max_attempts) == 1..max_attempts

\* `if attempt < max_attempts`
ShouldRetryMutant(k, max_attempts) == k <= max_attempts
ShouldRetry(k, max_attempts) == k < max_attempts

\* `current_delay *= backoff`
NextDelayMutant(d, backoff) == d + backoff
NextDelay(d, backoff) == d * backoff

\* `raise DiagnosticError(...) from last_exception`, else the RuntimeError
ExhaustedRaiseMutant(last) == IF last # NoExc THEN last ELSE Exc("RuntimeError", 0)
ExhaustedRaise(last) ==
    IF last # NoExc THEN RaiseFrom("DiagnosticError", last) ELSE Exc("RuntimeError", 0)

Event(ev, k, e, d) == [ev |-> ev, k |-> k, e |-> e, d |-> d]

\* The exceptions tuples the decorator is applied with: the default, the
\* one of retry_network, and a single class.
ExceptionTuples == { <<"Exception">>,
                     <<"ConnectionError", "TimeoutError", "OSError">>,
                     <<"ConnectionError">> }

\* What one invocation of the decorated function may do
RaisedTypes == {"ConnectionError", "TimeoutError", "OSError", "ValueError",
                "KeyboardInterrupt"}

RetryConfigs ==
    [max_attempts : 0..MaxAttempts, delay : 1..MaxDelay, backoff : 1..MaxBackoff,
     exceptions : ExceptionTuples, on_retry : {"none", "returns", "raises"}]

RetryNetworkConfig ==
    [max_attempts |-> 3, delay |-> 1, backoff |-> 2,
     exceptions |-> <<"ConnectionError", "TimeoutError", "OSError">>,
     on_retry |-> "none"]

RetryIdle ==
    /\ retry_pc = "idle"
    /\ retry_cfg = RetryNetworkConfig
    /\ attempt = 0
    /\ current_delay = 0
    /\ last_exception = NoExc
    /\ retry_calls = <<>>
    /\ retry_log = <<>>
    /\ retry_outcome = [kind |-> "none"]

\* wrapper(*args, **kwargs) is entered: retry.py:41-45
RetryCall ==
    /\ retry_pc = "idle"
    /\ \E c \in RetryConfigs :
          /\ retry_cfg' = c
          /\ current_delay' = c.delay
    /\ last_exception' = NoExc
    /\ attempt' = 1
    /\ retry_pc' = "loop"
    /\ UNCHANGED <<retry_calls, retry_log, retry_outcome>>
    /\ UNCHANGED <<parVars, probeVars, diagVars, callVars, restVars>>

\* One iteration of the loop in which func returns: retry.py:46-47
RetryAttemptReturns ==
    /\ retry_pc = "loop"
    /\ attempt \in LoopRange(retry_cfg.max_attempts)
    /\ retry_calls' = Append(retry_calls, [kind |-> "return", val |-> attempt])
    /\ retry_outcome' = [kind |-> "return", val |-> attempt]
    /\ retry_pc' = "done"
    /\ UNCHANGED <<retry_cfg, attempt, current_delay, last_exception, retry_log>>
    /\ UNCHANGED <<parVars, probeVars, diagVars, callVars, restVars>>

\* One iteration in which func raises an exception the except clause does
\* not catch: it leaves the wrapper as it is
RetryAttemptPropagates ==
    /\ retry_pc = "loop"
    /\ attempt \in LoopRange(retry_cfg.max_attempts)
    /\ \E t \in RaisedTypes :
          LET e == Exc(t, attempt) IN
          /\ ~IsListed(e, retry_cfg.exceptions)
          /\ retry_calls' = Append(retry_calls, [kind |-> "raise", val |-> e])
          /\ retry_outcome' = [kind |-> "raise", val |-> e]
    /\ retry_pc' = "done"
    /\ UNCHANGED <<retry_cfg, attempt, current_delay, last_exception, retry_log>>
    /\ UNCHANGED <<parVars, probeVars, diagVars, callVars, restVars>>

\* One iteration in which func raises a caught exception: retry.py:48-60
RetryAttemptFails ==
    /\ retry_pc = "loop"
    /\ attempt \in LoopRange(retry_cfg.max_attempts)
    /\ \E t \in RaisedTypes :
          LET e == Exc(t, attempt) IN
          /\ IsListed(e, retry_cfg.exceptions)
          /\ retry_calls' = Append(retry_calls, [kind |-> "raise", val |-> e])
          /\ last_exception' = e
          /\ IF ShouldRetry(attempt, retry_cfg.max_attempts)
             THEN LET warned == Append(retry_log, Event("warning", attempt, e, current_delay))
                      called == Append(warned, Event("on_retry", attempt, e, 0))
                  IN  IF retry_cfg.on_retry = "raises"
                      THEN \* on_retry raised inside the handler: nothing catches it
                           /\ retry_log' = called
                           /\ retry_outcome' = [kind |-> "raise", val |-> Exc("CallbackError", attempt)]
                           /\ retry_pc' = "done"
                           /\ UNCHANGED <<attempt, current_delay>>
                      ELSE /\ retry_log' =
                                Append(IF retry_cfg.on_retry = "none" THEN warned ELSE called,
                                       Event("sleep", attempt, NoExc, current_delay))
                           /\ current_delay' = NextDelay(current_delay, retry_cfg.backoff)
                           /\ attempt' = attempt + 1
                           /\ UNCHANGED <<retry_pc, retry_outcome>>
             ELSE /\ retry_log' = Append(retry_log, Event("error", attempt, e, 0))
                  /\ attempt' = attempt + 1
                  /\ UNCHANGED <<retry_pc, retry_outcome, current_delay>>
    /\ UNCHANGED retry_cfg
    /\ UNCHANGED <<parVars, probeVars, diagVars, callVars, restVars>>

\* The loop is exhausted: retry.py:62-70
RetryExhausted ==
    /\ retry_pc = "loop"
    /\ attempt \notin LoopRange(retry_cfg.max_attempts)
    /\ retry_outcome' = [kind |-> "raise", val |-> ExhaustedRaise(last_exception)]
    /\ retry_pc' = "done"
    /\ UNCHANGED <<retry_cfg, attempt, current_delay, last_exception, retry_calls, retry_log>>
    /\ UNCHANGED <<parVars, probeVars, diagVars, callVars, restVars>>

RetryNext ==
    \/ RetryCall
    \/ RetryAttemptReturns
    \/ RetryAttemptPropagates
    \/ RetryAttemptFails
    \/ RetryExhausted

----------------------------------------------------------------------------
(* diagnose.py: the record and the seven probe functions.  A probe is a     *)
(* function of what its external calls do (env); its result is the list it *)
(* returns, or the exception that leaves it.                                *)

\* Text fields (fix, details) are the pieces of the string; None is its own
\* value, different from the empty string <<>>
None == <<"<None>">>

\* A status f-string: its leading token and the pieces after "TOKEN - "
Status(token, parts) == [token |-> token, parts |-> parts]

\* DiagnosticIssue.__init__: diagnose.py:21-33
DiagnosticIssue(name, status, severity, fix, details) ==
    [name |-> name, status |-> status, severity |-> severity, fix |-> fix,
     details |-> details]

\* The keys of status_icon_map: diagnose.py:37-42
StatusTokens == {"PASS", "FAIL", "WARN", "INFO"}

\* constants.py:54-57, diagnose.py:31
Severities == {"critical", "warning", "info"}

\* self.status.split()[0]: the status string is the token, " - " and the
\* parts, and no token holds whitespace
FirstToken(status) == status.token

Returns(issues) == [kind |-> "ret", val |-> issues]
Raises(e) == [kind |-> "exc", val |-> e]

\* What subprocess.run may do inside run_command
Stdouts == [driver : BOOLEAN, cuda : {"12.4", "none"}]
SubprocessOutcomes ==
    [kind : {"completed"}, returncode : {0, 1}, stdout : Stdouts]
    \cup {[kind |-> "raise", type |-> t] :
             t \in {"TimeoutExpired", "FileNotFoundError", "PermissionError"}}

\* utils.run_command with a literal command and timeout that the validators
\* accept and check=False: utils.py:52-82
run_command(sub) ==
    IF sub.kind = "completed" THEN [kind |-> "ret", val |-> sub]
    ELSE IF sub.type \in {"TimeoutExpired", "FileNotFoundError"}
         THEN Raises(RaiseFrom("DiagnosticError", Exc(sub.type, 0)))
         ELSE Raises(Exc(sub.type, 0))

\* str(e) of an exception, as a piece of a status: the message of the
\* exception, which the model identifies with its class
\* The text of a URLError, the OSError urlopen raises
UrlopenError == "<urlopen error [Errno -2] Name or service not known>"

\* str(e).  The DiagnosticError the retry wrapper raises carries
\* f"Last error: {last_exception}" (retry.py:64-67, exceptions.py:12-15)
StrOf(e) ==
    IF e.type = "DiagnosticError" /\ e.cause_type = "OSError"
    THEN UrlopenError
    ELSE e.type

\* diagnose.py:52-114
check_cuda_driver(env) ==
    IF ~env.exists
    THEN Returns(<<DiagnosticIssue("NVIDIA GPU Driver",
                     Status("FAIL", <<"nvidia-smi not found">>), "critical",
                     <<"Install NVIDIA drivers: https://www.nvidia.com/Download/index.aspx">>,
                     None)>>)
    ELSE LET result == run_command(env.sub) IN
         IF result.kind = "exc"
         THEN Returns(<<DiagnosticIssue("NVIDIA GPU Driver",
                          Status("FAIL", <<StrOf(result.val)>>), "critical",
                          <<"Install NVIDIA drivers and reboot">>, None)>>)
         ELSE IF result.val.returncode # 0
         THEN Returns(<<DiagnosticIssue("NVIDIA GPU Driver",
                          Status("FAIL", <<"nvidia-smi error">>), "critical",
                          <<"Install/reinstall NVIDIA drivers and reboot">>, None)>>)
         ELSE LET cuda_version == IF result.val.stdout.cuda # "none"
                                  THEN result.val.stdout.cuda ELSE "unknown"
              IN  IF result.val.stdout.driver
                  THEN Returns(<<DiagnosticIssue("NVIDIA GPU Driver",
                                   Status("PASS", <<"CUDA ", cuda_version>>), "info", <<>>,
                                   <<"CUDA Version: ", cuda_version>>)>>)
                  ELSE Returns(<<DiagnosticIssue("NVIDIA GPU Driver",
                                   Status("FAIL", <<"No GPU detected">>), "critical",
                                   <<"Check GPU installation and drivers">>, None)>>)

CudaDriverEnvs == [exists : BOOLEAN, sub : SubprocessOutcomes]

\* diagnose.py:117-183.  env.torch: the import at module level succeeded;
\* env.cuda: what torch.cuda.is_available() and the device queries do (one
\* GPU with CUDA 12.4 when they succeed); env.version: torch.__version__
TorchVersions ==
    { [text |-> "2.5.1", parsable |-> TRUE, major |-> 2, minor |-> 5],
      [text |-> "2.4.0", parsable |-> TRUE, major |-> 2, minor |-> 4],
      [text |-> "2.3.1", parsable |-> TRUE, major |-> 2, minor |-> 3],
      [text |-> "1.13.1", parsable |-> TRUE, major |-> 1, minor |-> 13],
      [text |-> "2.dev", parsable |-> FALSE, major |-> 2, minor |-> 0] }

TorchIsOld(v) == v.major < 2 \/ (v.major = 2 /\ v.minor < 4)

check_pytorch_cuda(env) ==
    IF ~env.torch
    THEN Returns(<<DiagnosticIssue("PyTorch Installation",
                     Status("FAIL", <<"Not installed">>), "critical",
                     <<"pip install torch --index-url https://download.pytorch.org/whl/cu124">>,
                     None)>>)
    ELSE IF env.cuda = "raises"
    THEN Returns(<<DiagnosticIssue("PyTorch CUDA",
                     Status("FAIL", <<StrOf(Exc("RuntimeError", 0))>>),
                     "critical", <<"Reinstall PyTorch with CUDA support">>, None)>>)
    ELSE IF env.cuda = "unavailable"
    THEN Returns(<<DiagnosticIssue("PyTorch CUDA", Status("FAIL", <<"CUDA not available">>),
                     "critical",
                     <<"pip install torch --index-url https://download.pytorch.org/whl/cu124">>,
                     <<"PyTorch ", env.version.text, " installed but CUDA not available">>)>>)
    ELSE LET pass == DiagnosticIssue("PyTorch CUDA",
                        Status("PASS", <<"CUDA ", "12.4", " (", "1", " GPU(s))">>), "info", <<>>,
                        <<"PyTorch ", env.version.text, ", Device: ", "GPU 0">>)
         IN  IF ~env.version.parsable
             THEN \* int() raises ValueError after the PASS record was appended
                  Returns(<<pass,
                            DiagnosticIssue("PyTorch CUDA",
                               Status("FAIL", <<StrOf(Exc("ValueError", 0))>>),
                               "critical", <<"Reinstall PyTorch with CUDA support">>, None)>>)
             ELSE IF TorchIsOld(env.version)
             THEN Returns(<<pass,
                            DiagnosticIssue("PyTorch Version", Status("WARN", <<"Old version">>),
                               "warning",
                               <<"Upgrade: pip install torch>=2.4.0 --index-url https://download.pytorch.org/whl/cu124">>,
                               <<"Current: ", env.version.text, ", Recommended: >=2.4.0">>)>>)
             ELSE Returns(<<pass>>)

PytorchCudaEnvs ==
    [torch : BOOLEAN, cuda : {"available", "unavailable", "raises"}, version : TorchVersions]

\* diagnose.py:186-257.  env[k]: what importing and version-checking the
\* k-th required library does
required_libs == <<"transformers", "peft", "trl", "datasets", "accelerate">>

LibOutcomes == {"ImportError", "RuntimeError", "no_version", "old", "ok", "parse_raises"}

version_reqs == <<">=4.44.0", ">=0.12.0", ">=0.9.0", ">=2.20.0", ">=1.0.0">>

\* One iteration of the loop for a library whose import did not raise
\* anything but ImportError: diagnose.py:198-255.  The installed version is
\* "0.1" when it is older than required and "99.0" when it is not.
LibIssue(k, o) ==
    LET lib_name == required_libs[k]
        version_req == version_reqs[k]
    IN
    CASE o = "ImportError" ->
            DiagnosticIssue(lib_name, Status("FAIL", <<"Not installed">>), "critical",
                            <<"pip install ", lib_name, version_req>>, None)
      [] o = "no_version" ->
            DiagnosticIssue(lib_name, Status("PASS", <<"Installed">>), "info", <<>>, None)
      [] o = "parse_raises" ->
            DiagnosticIssue(lib_name, Status("PASS", <<"Installed">>), "info", <<>>,
                            <<"Version: ", "unparsable">>)
      [] o = "old" ->
            DiagnosticIssue(lib_name, Status("WARN", <<"Old version (", "0.1", ")">>),
                            "warning", <<"pip install ", lib_name, version_req>>,
                            <<"Current: ", "0.1", ", Required: ", version_req>>)
      [] OTHER ->
            DiagnosticIssue(lib_name, Status("PASS", <<"99.0">>), "info", <<>>, None)

\* `except ImportError` around the import: diagnose.py:247
ImportCaught(o) == o # "RuntimeError"

RECURSIVE LibLoop(_, _, _)
LibLoop(env, k, issues) ==
    IF k > Len(required_libs) THEN Returns(issues)
    ELSE IF ~ImportCaught(env[k]) THEN Raises(Exc(env[k], k))
    ELSE LibLoop(env, k + 1, Append(issues, LibIssue(k, env[k])))

check_ml_libraries(env) == LibLoop(env, 1, <<>>)

MlLibrariesEnvs == [1..Len(required_libs) -> LibOutcomes]

\* diagnose.py:260-301.  env.cuda: what torch.cuda.is_available() does, which
\* is called before the try; env.mem: what torch.cuda.mem_get_info(0) does
MemInfos == { [raises |-> TRUE, free_gb |-> 0, text |-> ""],
              [raises |-> FALSE, free_gb |-> 4, text |-> "4.0"],
              [raises |-> FALSE, free_gb |-> 8, text |-> "8.0"],
              [raises |-> FALSE, free_gb |-> 24, text |-> "24.0"] }

check_gpu_memory(env) ==
    IF ~env.torch THEN Returns(<<>>)
    ELSE IF env.cuda = "raises" THEN Raises(Exc("RuntimeError", 0))
    ELSE IF env.cuda = "unavailable" THEN Returns(<<>>)
    ELSE IF env.mem.raises
    THEN Returns(<<DiagnosticIssue("GPU Memory",
                     Status("FAIL", <<StrOf(Exc("RuntimeError", 0))>>),
                     "warning", <<"Check GPU access">>, None)>>)
    ELSE IF env.mem.free_gb < 8
    THEN Returns(<<DiagnosticIssue("GPU Memory",
                     Status("WARN", <<"Low memory (", env.mem.text, "GB free)">>), "warning",
                     <<"Close other processes or use smaller models">>,
                     <<"Free: ", env.mem.text, "GB / Total: ", "24.0", "GB">>)>>)
    ELSE Returns(<<DiagnosticIssue("GPU Memory",
                     Status("PASS", <<env.mem.text, "GB free">>), "info", <<>>,
                     <<"Free: ", env.mem.text, "GB / Total: ", "24.0", "GB">>)>>)

GpuMemoryEnvs ==
    [torch : BOOLEAN, cuda : {"available", "unavailable", "raises"}, mem : MemInfos]

\* str(e) of the OSError of a file system call: it names the path, here the
\* cache directory under a home directory whose name holds "PASS"
PermissionDenied == "[Errno 13] Permission denied: '/home/COMPASS/.cache'"

\* diagnose.py:304-353.  env.usage: what get_home_config_dir, exists and
\* shutil.disk_usage do, all inside the try; for "raises", text is str(e)
DiskUsages == { [kind |-> "raises", free_gb |-> 0, text |-> "OSError"],
                [kind |-> "raises", free_gb |-> 0, text |-> PermissionDenied],
                [kind |-> "missing", free_gb |-> 0, text |-> ""],
                [kind |-> "ok", free_gb |-> 10, text |-> "10.0"],
                [kind |-> "ok", free_gb |-> 50, text |-> "50.0"],
                [kind |-> "ok", free_gb |-> 200, text |-> "200.0"] }

check_disk_space(env) ==
    IF env.usage.kind = "raises"
    THEN Returns(<<DiagnosticIssue("Disk Space",
                     Status("WARN", <<env.usage.text>>), "warning",
                     <<"Check disk space manually">>, None)>>)
    ELSE IF env.usage.kind = "missing"
    THEN Returns(<<DiagnosticIssue("Disk Space", Status("INFO", <<"Cache dir not found">>),
                     "info", <<>>, None)>>)
    ELSE IF env.usage.free_gb < 50
    THEN Returns(<<DiagnosticIssue("Disk Space",
                     Status("WARN", <<"Low space (", env.usage.text, "GB free)">>), "warning",
                     <<"Free up disk space (HF cache needs ~50GB)">>,
                     <<"Free: ", env.usage.text, " GB">>)>>)
    ELSE Returns(<<DiagnosticIssue("Disk Space",
                     Status("PASS", <<env.usage.text, "GB free">>), "info", <<>>,
                     <<"Free: ", env.usage.text, " GB">>)>>)

DiskSpaceEnvs == [usage : DiskUsages]

\* diagnose.py:356-411
check_docker_gpu(env) ==
    IF ~env.exists
    THEN Returns(<<DiagnosticIssue("Docker GPU Support",
                     Status("INFO", <<"Docker not installed">>), "info",
                     <<"Install Docker for GPU containerization">>, None)>>)
    ELSE LET result == run_command(env.sub) IN
         IF result.kind = "exc"
         THEN Returns(<<DiagnosticIssue("Docker GPU Support",
                          Status("INFO", <<"Docker GPU test skipped">>), "info",
                          <<"Test manually: docker run --rm --gpus all nvidia/cuda:12.4.0-base-ubuntu22.04 nvidia-smi">>,
                          None)>>)
         ELSE IF result.val.returncode = 0
         THEN Returns(<<DiagnosticIssue("Docker GPU Support",
                          Status("PASS", <<"nvidia-docker working">>), "info", <<>>, None)>>)
         ELSE Returns(<<DiagnosticIssue("Docker GPU Support",
                          Status("FAIL", <<"GPU not accessible in Docker">>), "warning",
                          <<"Install nvidia-container-toolkit: https://docs.nvidia.com/datacenter/cloud-native/container-toolkit/install-guide.html">>,
                          None)>>)

DockerGpuEnvs == [exists : BOOLEAN, sub : SubprocessOutcomes]

\* diagnose.py:414-448.  env.conn: how the retry_network wrapper around
\* _check_connectivity ended.  `except Exception` lets a BaseException that
\* is no Exception through.
check_internet_connectivity(env) ==
    IF env.conn.kind = "raise" /\ ~IsSubclass(env.conn.val.type, "Exception")
    THEN Raises(env.conn.val)
    ELSE IF env.conn.kind = "return"
    THEN Returns(<<DiagnosticIssue("Internet Connectivity",
                     Status("PASS", <<"HF Hub accessible">>), "info", <<>>, None)>>)
    ELSE Returns(<<DiagnosticIssue("Internet Connectivity",
                     Status("WARN", <<"Cannot reach HF Hub">>), "warning",
                     <<"Check internet connection and firewall settings">>,
                     <<StrOf(env.conn.val)>>)>>)

InternetEnvs ==
    [conn : { [kind |-> "return", val |-> NoExc],
              [kind |-> "raise", val |-> RaiseFrom("DiagnosticError", Exc("OSError", 3))],
              [kind |-> "raise", val |-> Exc("ValueError", 1)] }]

\* The probe lists of diagnose_env: diagnose.py:469-473, 520-525
core_checks == <<"check_cuda_driver", "check_pytorch_cuda", "check_ml_libraries">>
extended_checks == <<"check_gpu_memory", "check_disk_space", "check_docker_gpu",
                     "check_internet_connectivity">>
Probes == {core_checks[k] : k \in 1..Len(core_checks)}
             \cup {extended_checks[k] : k \in 1..Len(extended_checks)}

\* check_func(): the call of a probe
Check(p, env) ==
    CASE p = "check_cuda_driver"   -> check_cuda_driver(env)
      [] p = "check_pytorch_cuda"  -> check_pytorch_cuda(env)
      [] p = "check_ml_libraries"  -> check_ml_libraries(env)
      [] p = "check_gpu_memory"    -> check_gpu_memory(env)
      [] p = "check_disk_space"    -> check_disk_space(env)
      [] p = "check_docker_gpu"    -> check_docker_gpu(env)
      [] OTHER                     -> check_internet_connectivity(env)

ProbeEnvs(p) ==
    CASE p = "check_cuda_driver"   -> CudaDriverEnvs
      [] p = "check_pytorch_cuda"  -> PytorchCudaEnvs
      [] p = "check_ml_libraries"  -> MlLibrariesEnvs
      [] p = "check_gpu_memory"    -> GpuMemoryEnvs
      [] p = "check_disk_space"    -> DiskSpaceEnvs
      [] p = "check_docker_gpu"    -> DockerGpuEnvs
      [] OTHER                     -> InternetEnvs

\* The environments of a run of diagnose_env.  In one run a call of a probe
\* is "healthy" (everything it looks for is there), "broken" (it is not) or
\* "raises" (an exception leaves the probe function).
HealthyEnv(p) ==
    CASE p = "check_cuda_driver" ->
            [exists |-> TRUE,
             sub |-> [kind |-> "completed", returncode |-> 0,
                      stdout |-> [driver |-> TRUE, cuda |-> "12.4"]]]
      [] p = "check_pytorch_cuda" ->
            [torch |-> TRUE, cuda |-> "available",
             version |-> [text |-> "2.5.1", parsable |-> TRUE, major |-> 2, minor |-> 5]]
      [] p = "check_ml_libraries" -> <<"ok", "ok", "ok", "ok", "ok">>
      [] p = "check_gpu_memory" ->
            [torch |-> TRUE, cuda |-> "available",
             mem |-> [raises |-> FALSE, free_gb |-> 24, text |-> "24.0"]]
      [] p = "check_disk_space" ->
            [usage |-> [kind |-> "ok", free_gb |-> 200, text |-> "200.0"]]
      [] p = "check_docker_gpu" ->
            [exists |-> TRUE,
             sub |-> [kind |-> "completed", returncode |-> 0,
                      stdout |-> [driver |-> TRUE, cuda |-> "12.4"]]]
      [] OTHER -> [conn |-> [kind |-> "return", val |-> NoExc]]

BrokenEnv(p) ==
    CASE p = "check_cuda_driver" ->
            [exists |-> FALSE, sub |-> [kind |-> "raise", type |-> "FileNotFoundError"]]
      [] p = "check_pytorch_cuda" ->
            [torch |-> TRUE, cuda |-> "available",
             version |-> [text |-> "2.3.1", parsable |-> TRUE, major |-> 2, minor |-> 3]]
      [] p = "check_ml_libraries" ->
            <<"ImportError", "old", "ok", "no_version", "parse_raises">>
      [] p = "check_gpu_memory" ->
            [torch |-> FALSE, cuda |-> "unavailable",
             mem |-> [raises |-> TRUE, free_gb |-> 0, text |-> ""]]
      [] p = "check_disk_space" ->
            [usage |-> [kind |-> "raises", free_gb |-> 0, text |-> PermissionDenied]]
      [] p = "check_docker_gpu" ->
            [exists |-> TRUE,
             sub |-> [kind |-> "completed", returncode |-> 1,
                      stdout |-> [driver |-> FALSE, cuda |-> "none"]]]
      [] OTHER ->
            [conn |-> [kind |-> "raise",
                       val |-> RaiseFrom("DiagnosticError", Exc("OSError", 3))]]

ProbeModes == {"healthy", "broken", "raises"}

\* check_func() in a run where the probe is in mode m
ProbeOutcome(p, m) ==
    CASE m = "healthy" -> Check(p, HealthyEnv(p))
      [] m = "broken"  -> Check(p, BrokenEnv(p))
      [] OTHER         -> Raises(Exc("RuntimeError", 0))

\* The runs of the model: at most MaxFaulty probes are not healthy
DiagWorlds ==
    {w \in [Probes -> ProbeModes] :
        Cardinality({p \in Probes : w[p] # "healthy"}) <= MaxFaulty}

----------------------------------------------------------------------------
(* parallel.py: a ThreadPoolExecutor, its futures and as_completed *)

ItemSet == {"a", "b"}

\* The input lists of the model: every list of n items in which no "a"
\* follows a "b" (lists with equal and with different items; func does not
\* look at the item)
ItemLists(n) ==
    {s \in [1..n -> ItemSet] : \A i \in 1..(n - 1) : ~(s[i] = "b" /\ s[i + 1] = "a")}

\* The orders in which a set can be iterated
Perms(S) ==
    {s \in [1..Cardinality(S) -> S] : \A i, j \in 1..Cardinality(S) : i # j => s[i] # s[j]}

Futures == 1..Len(items_list)
DoneFutures == {i \in Futures : fut_state[i] = "finished"}
RunningFutures == {i \in Futures : fut_state[i] = "running"}

\* What the call func(items_list[i]) may do: return a value, raise an
\* Exception, or raise a BaseException that is no Exception.  The value and
\* the exception carry the index of the call they come from.
\* Called by diagnose_env, func calls the probe items_list[i].
FuncOutcomes(i) ==
    IF diag_pc = "idle"
    THEN { [kind |-> "ret", val |-> i],
           [kind |-> "exc", val |-> Exc("ValueError", i)],
           [kind |-> "exc", val |-> Exc("KeyboardInterrupt", i)] }
    ELSE { ProbeOutcome(items_list[i], diag_world[items_list[i]]) }

\* `except Exception`
IsException(e) == IsSubclass(e.type, "Exception")

ParIdle ==
    /\ par_pc = "idle"
    /\ par_fn = "none"
    /\ par_cfg = [max_workers |-> 4, timeout |-> FALSE]
    /\ items_list = <<>>
    /\ fut_state = <<>>
    /\ fut_result = <<>>
    /\ finished = <<>>
    /\ pending = {}
    /\ waiter_finished = <<>>
    /\ results = <<>>
    /\ completed = 0
    /\ par_outcome = [kind |-> "none"]

\* The function is entered, and with a non-empty list the executor is
\* created and every item submitted: parallel.py:37-48, 97-105
Enter(fn, its, cfg) ==
    /\ par_fn' = fn
    /\ par_cfg' = cfg
    /\ items_list' = its
    /\ fut_state' = [i \in 1..Len(its) |-> "pending"]
    /\ fut_result' = [i \in 1..Len(its) |-> [kind |-> "none"]]
    /\ finished' = <<>>
    /\ pending' = {}
    /\ waiter_finished' = <<>>
    /\ results' = <<>>
    /\ completed' = 0
    /\ IF its = <<>>
       THEN /\ par_pc' = "done"
            /\ par_outcome' = [kind |-> "return", val |-> <<>>]
       ELSE /\ par_pc' = "submitted"
            /\ par_outcome' = [kind |-> "none"]

ParCall ==
    /\ par_pc = "idle"
    /\ diag_pc = "idle"
    /\ \E fn \in {"run_parallel", "run_parallel_with_results"},
          n \in 0..MaxItems, mw \in 1..MaxWorkers, to \in BOOLEAN :
          \E its \in ItemLists(n) :
             Enter(fn, its, [max_workers |-> mw, timeout |-> to])
    /\ UNCHANGED <<retryVars, probeVars, diagVars, callVars, restVars>>

\* A worker thread takes the oldest queued work item and calls func
TaskStart(i) ==
    /\ par_pc \in {"submitted", "iter", "exit"}
    /\ fut_state[i] = "pending"
    /\ \A j \in 1..(i - 1) : fut_state[j] # "pending"
    /\ Cardinality(RunningFutures) < par_cfg.max_workers
    /\ fut_state' = [fut_state EXCEPT ![i] = "running"]
    /\ UNCHANGED <<par_pc, par_fn, par_cfg, items_list, fut_result, finished, pending,
                   waiter_finished, results, completed, par_outcome>>
    /\ calls' = [calls EXCEPT ![items_list[i]] = @ + 1]
    /\ UNCHANGED <<retryVars, probeVars, diagVars, ended, restVars>>

\* The call returns or raises; the future is set and the waiter of a
\* running as_completed is told
TaskFinish(i) ==
    /\ par_pc \in {"submitted", "iter", "exit"}
    /\ fut_state[i] = "running"
    /\ \E o \in FuncOutcomes(i) : fut_result' = [fut_result EXCEPT ![i] = o]
    /\ fut_state' = [fut_state EXCEPT ![i] = "finished"]
    /\ waiter_finished' = IF par_pc = "iter" THEN Append(waiter_finished, i) ELSE waiter_finished
    /\ UNCHANGED <<par_pc, par_fn, par_cfg, items_list, finished, pending, results,
                   completed, par_outcome>>
    /\ ended' = [ended EXCEPT ![items_list[i]] = @ + 1]
    /\ UNCHANGED <<retryVars, probeVars, diagVars, calls, restVars>>

\* as_completed(future_to_item, timeout) begins: the futures already done
\* are yielded first, in the iteration order of a set
AsCompletedStart ==
    /\ par_pc = "submitted"
    /\ \E order \in Perms(DoneFutures) : finished' = order
    /\ pending' = Futures \ DoneFutures
    /\ waiter_finished' = <<>>
    /\ par_pc' = "iter"
    /\ UNCHANGED <<par_fn, par_cfg, items_list, fut_state, fut_result, results,
                   completed, par_outcome>>
    /\ UNCHANGED <<retryVars, probeVars, diagVars, callVars, restVars>>

\* as_completed wakes up and takes the futures finished meanwhile, in the
\* order in which they finished
AsCompletedWait ==
    /\ par_pc = "iter"
    /\ finished = <<>>
    /\ pending # {}
    /\ waiter_finished # <<>>
    /\ finished' = waiter_finished
    /\ waiter_finished' = <<>>
    /\ UNCHANGED <<par_pc, par_fn, par_cfg, items_list, fut_state, fut_result, pending,
                   results, completed, par_outcome>>
    /\ UNCHANGED <<retryVars, probeVars, diagVars, callVars, restVars>>

\* as_completed finds the timeout elapsed with futures not yet yielded and
\* raises TimeoutError, which leaves the for loop and the function body
AsCompletedTimeout ==
    /\ par_pc = "iter"
    /\ par_cfg.timeout
    /\ finished = <<>>
    /\ pending # {}
    /\ par_outcome' = [kind |-> "raise", val |-> Exc("TimeoutError", 0)]
    /\ par_pc' = "exit"
    /\ UNCHANGED <<par_fn, par_cfg, items_list, fut_state, fut_result, finished, pending,
                   waiter_finished, results, completed>>
    /\ UNCHANGED <<retryVars, probeVars, diagVars, callVars, restVars>>

\* The body of run_parallel's loop for the next yielded future:
\* parallel.py:52-60
RunParallelBodyMutant(i) ==
    /\ finished' = Tail(finished)
    /\ pending' = pending \ {i}
    /\ results' = IF fut_result[i].kind = "ret"
                  THEN Append(results, fut_result[i].val)
                  ELSE results
    /\ completed' = IF fut_result[i].kind = "ret" THEN completed + 1 ELSE completed
    /\ UNCHANGED <<par_pc, par_outcome>>
RunParallelBody(i) ==
    /\ finished' = Tail(finished)
    /\ pending' = pending \ {i}
    /\ IF fut_result[i].kind = "ret"
       THEN /\ results' = Append(results, fut_result[i].val)
            /\ completed' = completed + 1
            /\ UNCHANGED <<par_pc, par_outcome>>
       ELSE /\ par_outcome' = [kind |-> "raise", val |-> fut_result[i].val]
            /\ par_pc' = "exit"
            /\ UNCHANGED <<results, completed>>

RunParallelYield ==
    /\ par_pc = "iter"
    /\ par_fn = "run_parallel"
    /\ finished # <<>>
    /\ RunParallelBody(Head(finished))
    /\ UNCHANGED <<par_fn, par_cfg, items_list, fut_state, fut_result, waiter_finished>>
    /\ UNCHANGED <<retryVars, probeVars, diagVars, callVars, restVars>>

\* The loop of run_parallel ends: parallel.py:62-65
RunParallelLoopEnd ==
    /\ par_pc = "iter"
    /\ par_fn = "run_parallel"
    /\ finished = <<>>
    /\ pending = {}
    /\ par_outcome' = IF completed # Len(items_list)
                      THEN [kind |-> "raise", val |-> Exc("RuntimeError", 0)]
                      ELSE [kind |-> "return", val |-> results]
    /\ par_pc' = "exit"
    /\ UNCHANGED <<par_fn, par_cfg, items_list, fut_state, fut_result, finished, pending,
                   waiter_finished, results, completed>>
    /\ UNCHANGED <<retryVars, probeVars, diagVars, callVars, restVars>>

\* The body of run_parallel_with_results' loop: parallel.py:108-113
WithResultsBodyMutant(i) ==
    /\ finished' = Tail(finished)
    /\ pending' = pending \ {i}
    /\ results' = IF fut_result[i].kind = "ret"
                  THEN Append(results, <<items_list[i], fut_result[i]>>)
                  ELSE results
    /\ UNCHANGED <<par_pc, par_outcome>>
WithResultsBody(i) ==
    /\ finished' = Tail(finished)
    /\ pending' = pending \ {i}
    /\ IF fut_result[i].kind = "ret" \/ IsException(fut_result[i].val)
       THEN /\ results' = Append(results, <<items_list[i], fut_result[i]>>)
            /\ UNCHANGED <<par_pc, par_outcome>>
       ELSE /\ par_outcome' = [kind |-> "raise", val |-> fut_result[i].val]
            /\ par_pc' = "exit"
            /\ UNCHANGED results

WithResultsYield ==
    /\ par_pc = "iter"
    /\ par_fn = "run_parallel_with_results"
    /\ finished # <<>>
    /\ WithResultsBody(Head(finished))
    /\ UNCHANGED <<par_fn, par_cfg, items_list, fut_state, fut_result, waiter_finished,
                   completed>>
    /\ UNCHANGED <<retryVars, probeVars, diagVars, callVars, restVars>>

\* The loop of run_parallel_with_results ends: parallel.py:115
WithResultsLoopEnd ==
    /\ par_pc = "iter"
    /\ par_fn = "run_parallel_with_results"
    /\ finished = <<>>
    /\ pending = {}
    /\ par_outcome' = [kind |-> "return", val |-> results]
    /\ par_pc' = "exit"
    /\ UNCHANGED <<par_fn, par_cfg, items_list, fut_state, fut_result, finished, pending,
                   waiter_finished, results, completed>>
    /\ UNCHANGED <<retryVars, probeVars, diagVars, callVars, restVars>>

\* The with block is left, by return or by an exception: the executor's
\* __exit__ is shutdown(wait=True), which joins the workers, and these run
\* every submitted work item first
ShutdownWaitsMutant == TRUE
ShutdownWaits == \A i \in Futures : fut_state[i] = "finished"

ExecutorExit ==
    /\ par_pc = "exit"
    /\ ShutdownWaits
    /\ par_pc' = "done"
    /\ UNCHANGED <<par_fn, par_cfg, items_list, fut_state, fut_result, finished, pending,
                   waiter_finished, results, completed, par_outcome>>
    /\ UNCHANGED <<retryVars, probeVars, diagVars, callVars, restVars>>

ParNext ==
    \/ ParCall
    \/ \E i \in Futures : TaskStart(i)
    \/ \E i \in Futures : TaskFinish(i)
    \/ AsCompletedStart
    \/ AsCompletedWait
    \/ AsCompletedTimeout
    \/ RunParallelYield
    \/ RunParallelLoopEnd
    \/ WithResultsYield
    \/ WithResultsLoopEnd
    \/ ExecutorExit

----------------------------------------------------------------------------
(* diagnose.py: diagnose_env *)

DiagIdle ==
    /\ diag_pc = "idle"
    /\ diag_args = [full |-> FALSE, parallel |-> TRUE]
    /\ diag_world = [p \in Probes |-> "healthy"]
    /\ check_i = 0
    /\ all_issues = <<>>
    /\ diag_log = <<>>
    /\ diag_outcome = [kind |-> "none"]

CallsIdle ==
    /\ calls = [x \in ItemSet \cup Probes |-> 0]
    /\ ended = [x \in ItemSet \cup Probes |-> 0]

\* check_func.__name__.replace("check_", "").replace("_", " ").title()
TitleOf(p) ==
    CASE p = "check_cuda_driver"   -> "Cuda Driver"
      [] p = "check_pytorch_cuda"  -> "Pytorch Cuda"
      [] p = "check_ml_libraries"  -> "Ml Libraries"
      [] p = "check_gpu_memory"    -> "Gpu Memory"
      [] p = "check_disk_space"    -> "Disk Space"
      [] p = "check_docker_gpu"    -> "Docker Gpu"
      [] OTHER                     -> "Internet Connectivity"

\* The record added for a core check that raised: diagnose.py:489-497, 508-516
CheckErrorIssueMutant(p, e) ==
    DiagnosticIssue(TitleOf(p), Status("Check", <<"error">>), "critical",
                    <<"Run diagnostics again or check logs">>, <<StrOf(e)>>)
CheckErrorIssue(p, e) ==
    DiagnosticIssue(TitleOf(p), Status("FAIL", <<"Check error">>), "critical",
                    <<"Run diagnostics again or check logs">>, <<StrOf(e)>>)

LogLine(level, p) == [level |-> level, check |-> p]

\* What one core check adds to all_issues and to the log, given what its
\* call did: diagnose.py:484-499 and 503-516
CoreIssues(p, o) == IF o.kind = "exc" THEN <<CheckErrorIssue(p, o.val)>> ELSE o.val
CoreLogMutant(p, o) == <<>>
CoreLog(p, o) == IF o.kind = "exc" THEN <<LogLine("error", p)>> ELSE <<>>

\* The same for an extended check: diagnose.py:535-540 and 543-547
ExtendedIssues(p, o) == IF o.kind = "exc" THEN <<>> ELSE o.val
ExtendedLog(p, o) == IF o.kind = "exc" THEN <<LogLine("warning", p)>> ELSE <<>>

\* `for check_func, result in results`: diagnose.py:483-499
RECURSIVE CollectCore(_, _)
CollectCore(pairs, acc) ==
    IF pairs = <<>> THEN acc
    ELSE LET p == Head(pairs)[1]
             o == Head(pairs)[2]
         IN  CollectCore(Tail(pairs),
                         [issues |-> acc.issues \o CoreIssues(p, o),
                          log |-> acc.log \o CoreLog(p, o)])

\* `for check_func, result in results`: diagnose.py:534-540
RECURSIVE CollectExtended(_, _)
CollectExtended(pairs, acc) ==
    IF pairs = <<>> THEN acc
    ELSE LET p == Head(pairs)[1]
             o == Head(pairs)[2]
         IN  CollectExtended(Tail(pairs),
                             [issues |-> acc.issues \o ExtendedIssues(p, o),
                              log |-> acc.log \o ExtendedLog(p, o)])

\* diagnose_env(full, parallel) is entered; in parallel mode it calls
\* run_parallel_with_results on the core checks: diagnose.py:462-482
DiagEnter(full, parallel, w) ==
    /\ diag_pc = "idle"
    /\ par_pc = "idle"
    /\ diag_args' = [full |-> full, parallel |-> parallel]
    /\ diag_world' = w
    /\ IF parallel
       THEN /\ Enter("run_parallel_with_results", core_checks,
                     [max_workers |-> 3, timeout |-> TRUE])
            /\ check_i' = 0
       ELSE /\ check_i' = 1
            /\ UNCHANGED parVars
    /\ diag_pc' = "core"
    /\ all_issues' = <<>>
    /\ diag_log' = <<>>
    /\ diag_outcome' = [kind |-> "none"]

DiagCall ==
    /\ diag_pc = "idle"
    /\ \E full \in BOOLEAN, parallel \in BOOLEAN, w \in DiagWorlds :
          DiagEnter(full, parallel, w)
    /\ UNCHANGED <<retryVars, probeVars, callVars, restVars>>

\* The core phase is over: the extended phase begins, or the function
\* returns all_issues: diagnose.py:518-533, 549
AfterCore(issues) ==
    IF diag_args.full
    THEN /\ diag_pc' = "extended"
         /\ diag_outcome' = diag_outcome
         /\ IF diag_args.parallel
            THEN /\ Enter("run_parallel_with_results", extended_checks,
                          [max_workers |-> 4, timeout |-> TRUE])
                 /\ check_i' = 0
            ELSE /\ check_i' = 1
                 /\ UNCHANGED parVars
    ELSE /\ diag_pc' = "done"
         /\ diag_outcome' = [kind |-> "return", val |-> issues]
         /\ check_i' = 0
         /\ UNCHANGED parVars

\* Parallel mode: run_parallel_with_results on the core checks has ended
DiagCoreCollect ==
    /\ diag_pc = "core"
    /\ diag_args.parallel
    /\ par_pc = "done"
    /\ IF par_outcome.kind = "raise"
       THEN \* nothing in diagnose_env catches it
            /\ diag_outcome' = par_outcome
            /\ diag_pc' = "done"
            /\ UNCHANGED <<all_issues, diag_log, check_i, parVars>>
       ELSE LET got == CollectCore(par_outcome.val, [issues |-> all_issues, log |-> diag_log])
            IN  /\ all_issues' = got.issues
                /\ diag_log' = got.log
                /\ AfterCore(got.issues)
    /\ UNCHANGED <<diag_args, diag_world>>
    /\ UNCHANGED <<retryVars, probeVars, callVars, restVars>>

\* Sequential mode: one iteration of `for check_func in core_checks`
DiagCoreSequential ==
    /\ diag_pc = "core"
    /\ ~diag_args.parallel
    /\ check_i \in 1..Len(core_checks)
    /\ LET p == core_checks[check_i]
           o == ProbeOutcome(p, diag_world[p])
           issues == all_issues \o CoreIssues(p, o)
       IN  /\ calls' = [calls EXCEPT ![p] = @ + 1]
           /\ ended' = [ended EXCEPT ![p] = @ + 1]
           /\ all_issues' = issues
           /\ diag_log' = diag_log \o CoreLog(p, o)
           /\ IF check_i < Len(core_checks)
              THEN /\ check_i' = check_i + 1
                   /\ UNCHANGED <<diag_pc, diag_outcome, parVars>>
              ELSE AfterCore(issues)
    /\ UNCHANGED <<diag_args, diag_world>>
    /\ UNCHANGED <<retryVars, probeVars, restVars>>

\* Parallel mode: run_parallel_with_results on the extended checks has ended
DiagExtendedCollect ==
    /\ diag_pc = "extended"
    /\ diag_args.parallel
    /\ par_pc = "done"
    /\ IF par_outcome.kind = "raise"
       THEN /\ diag_outcome' = par_outcome
            /\ UNCHANGED <<all_issues, diag_log>>
       ELSE LET got == CollectExtended(par_outcome.val,
                                       [issues |-> all_issues, log |-> diag_log])
            IN  /\ all_issues' = got.issues
                /\ diag_log' = got.log
                /\ diag_outcome' = [kind |-> "return", val |-> got.issues]
    /\ diag_pc' = "done"
    /\ UNCHANGED <<diag_args, diag_world, check_i>>
    /\ UNCHANGED <<retryVars, probeVars, parVars, callVars, restVars>>

\* Sequential mode: one iteration of `for check_func in extended_checks`
DiagExtendedSequential ==
    /\ diag_pc = "extended"
    /\ ~diag_args.parallel
    /\ check_i \in 1..Len(extended_checks)
    /\ LET p == extended_checks[check_i]
           o == ProbeOutcome(p, diag_world[p])
           issues == all_issues \o ExtendedIssues(p, o)
       IN  /\ calls' = [calls EXCEPT ![p] = @ + 1]
           /\ ended' = [ended EXCEPT ![p] = @ + 1]
           /\ all_issues' = issues
           /\ diag_log' = diag_log \o ExtendedLog(p, o)
           /\ IF check_i < Len(extended_checks)
              THEN /\ check_i' = check_i + 1
                   /\ UNCHANGED <<diag_pc, diag_outcome>>
              ELSE /\ check_i' = 0
                   /\ diag_pc' = "done"
                   /\ diag_outcome' = [kind |-> "return", val |-> issues]
    /\ UNCHANGED <<diag_args, diag_world>>
    /\ UNCHANGED <<retryVars, probeVars, parVars, restVars>>

\* diagnose_env with the thread pool of its run_parallel_with_results calls
DiagNext ==
    \/ DiagCall
    \/ \E i \in Futures : TaskStart(i)
    \/ \E i \in Futures : TaskFinish(i)
    \/ AsCompletedStart
    \/ AsCompletedWait
    \/ AsCompletedTimeout
    \/ WithResultsYield
    \/ WithResultsLoopEnd
    \/ ExecutorExit
    \/ DiagCoreCollect
    \/ DiagCoreSequential
    \/ DiagExtendedCollect
    \/ DiagExtendedSequential

----------------------------------------------------------------------------
(* diagnose.py, export.py: the renderers and exporters of the record list *)

\* str.upper() on the severities
Upper(sev) ==
    CASE sev = "critical" -> "CRITICAL"
      [] sev = "warning"  -> "WARNING"
      [] sev = "info"     -> "INFO"
      [] OTHER            -> sev

\* The status string: the token, " - " and the pieces after it
StatusText(status) == <<status.token, " - ">> \o status.parts

\* The category tokens a piece of text holds as a substring
TokensIn(piece) ==
    CASE piece = "CUDA_ERROR_LAUNCH_FAILED" -> {"FAIL"}
      [] piece = PermissionDenied           -> {"PASS"}
      [] OTHER                              -> {}

\* `"FAIL" in i.status`: export.py:46-51, diagnose.py:569-573
InStatus(w, status) ==
    \/ status.token = w
    \/ \E k \in DOMAIN status.parts : w \in TokensIn(status.parts[k])

\* `x or d`: d for None and for the empty string
OrElse(x, d) == IF x = None \/ x = <<>> THEN d ELSE x

\* status_icon_map.get(..., "?"): diagnose.py:37-43
Icon(token) ==
    CASE token = "PASS" -> "icon_check"
      [] token = "FAIL" -> "icon_cross"
      [] token = "WARN" -> "icon_warning"
      [] token = "INFO" -> "icon_info"
      [] OTHER          -> "?"

\* DiagnosticIssue.to_row: diagnose.py:35-49
to_row(issue) ==
    <<issue.name,
      <<Icon(FirstToken(issue.status)), " ">> \o StatusText(issue.status),
      Upper(issue.severity),
      issue.fix>>

\* sum(1 for i in issues if ...)
CountIf(list, P(_)) == Cardinality({k \in DOMAIN list : P(list[k])})

IsCritical(i) == i.severity = "critical" /\ InStatus("FAIL", i.status)
IsWarning(i) ==
    i.severity = "warning" /\ (InStatus("WARN", i.status) \/ InStatus("FAIL", i.status))
IsPass(i) == InStatus("PASS", i.status)

\* What print_diagnostic_table prints: diagnose.py:552-593
Table(list) ==
    [rows |-> [k \in DOMAIN list |-> to_row(list[k])],
     passed |-> CountIf(list, IsPass),
     warnings |-> CountIf(list, IsWarning),
     critical |-> CountIf(list, IsCritical)]

\* export.py:11-19
issue_to_dict(issue) ==
    [name |-> issue.name, status |-> StatusText(issue.status),
     severity |-> issue.severity, fix |-> issue.fix, details |-> issue.details]

\* The document export_json writes: export.py:42-72
JsonDoc(list, t, include_metadata) ==
    [issues |-> [k \in DOMAIN list |-> issue_to_dict(list[k])],
     summary |-> [total |-> Len(list),
                  passed |-> CountIf(list, IsPass),
                  warnings |-> CountIf(list, IsWarning),
                  critical |-> CountIf(list, IsCritical)],
     metadata |-> IF include_metadata
                  THEN [version |-> "__version__", timestamp |-> t, tool |-> "mlenvdoctor"]
                  ELSE [version |-> "absent", timestamp |-> 0, tool |-> "absent"]]

\* The rows export_csv writes: export.py:98-109
CsvHeader == <<"Issue", "Status", "Severity", "Fix", "Details">>
CsvRow(issue) ==
    <<issue.name, StatusText(issue.status), issue.severity, issue.fix,
      OrElse(issue.details, <<>>)>>
CsvDoc(list) == <<CsvHeader>> \o [k \in DOMAIN list |-> CsvRow(list[k])]

\* One <tr> of export_html: the values are put into the markup as they
\* are: export.py:259-276
StatusClass(status) ==
    IF InStatus("FAIL", status) THEN "status-fail"
    ELSE IF InStatus("WARN", status) THEN "status-warn"
    ELSE "status-pass"
HtmlRow(issue) ==
    [severity_class |-> <<"severity-", issue.severity>>,
     name |-> <<issue.name>>,
     status_class |-> StatusClass(issue.status),
     status |-> StatusText(issue.status),
     severity |-> Upper(issue.severity),
     fix |-> OrElse(issue.fix, <<"-">>),
     details |-> OrElse(issue.details, <<"-">>)]

\* A piece of text an HTML parser reads as a tag
IsTag(piece) == piece = UrlopenError

\* The text of a table cell as a reader of the page gets it: what the
\* parser takes for a tag is not text of the cell
CellText(cell) == SelectSeq(cell, LAMBDA piece : ~IsTag(piece))

\* The page export_html writes: export.py:128-287
HtmlDoc(list, t) ==
    [generated |-> t,
     version |-> "__version__",
     total |-> Len(list),
     passed |-> CountIf(list, IsPass),
     warnings |-> CountIf(list, IsWarning),
     critical |-> CountIf(list, IsCritical),
     rows |-> [k \in DOMAIN list |-> HtmlRow(list[k])]]

\* The output files, one per format
Formats == {"json", "csv", "html"}
NoFile == [exists |-> FALSE, content |-> <<>>]
NoTable == [printed |-> FALSE]
NoRow == <<>>

\* Path.write_text and open(path, "w") replace what the file held
WriteText(old, text) == [exists |-> TRUE, content |-> text]
OpenWMutant(old, rows) == [exists |-> TRUE, content |-> old.content \o rows]
OpenW(old, rows) == [exists |-> TRUE, content |-> rows]

\* Records the probes and diagnose_env create: the two records of
\* check_internet_connectivity and the record of a core check that raised
RecordPool ==
    { Check("check_internet_connectivity", HealthyEnv("check_internet_connectivity")).val[1],
      Check("check_internet_connectivity", BrokenEnv("check_internet_connectivity")).val[1],
      CheckErrorIssue("check_cuda_driver", Exc("RuntimeError", 0)) }

RecordLists == UNION { [1..n -> RecordPool] : n \in 0..MaxRecords }

ExportIdle ==
    /\ exp_pc = "idle"
    /\ issue_list = <<>>
    /\ files = [f \in Formats |-> NoFile]
    /\ first_files = [f \in Formats |-> NoFile]
    /\ table = NoTable
    /\ last_row = NoRow
    /\ now = 0

\* File f now holds `file`
Written(f, file) ==
    /\ files' = [files EXCEPT ![f] = file]
    /\ first_files' = IF first_files[f].exists THEN first_files
                      ELSE [first_files EXCEPT ![f] = file]

\* export_json(issues, path): export.py:22-77
DoExportJson ==
    Written("json", WriteText(files["json"], JsonDoc(issue_list, now, TRUE)))

\* export_csv(issues, path): export.py:80-111
DoExportCsvMutant == UNCHANGED <<files, first_files>>
DoExportCsv == Written("csv", OpenW(files["csv"], CsvDoc(issue_list)))

\* export_html(issues, path): export.py:114-290
DoExportHtml == Written("html", WriteText(files["html"], HtmlDoc(issue_list, now)))

\* print_diagnostic_table(issues): diagnose.py:552-593
DoPrintTable == table' = [printed |-> TRUE, shown |-> Table(issue_list)]

\* A list of records is at hand
ExportStart ==
    /\ exp_pc = "idle"
    /\ \E list \in RecordLists : issue_list' = list
    /\ exp_pc' = "ready"
    /\ UNCHANGED <<files, first_files, table, last_row, now>>
    /\ UNCHANGED <<retryVars, parVars, probeVars, diagVars, callVars, cliVars, valVars, utilVars>>

ToRow(k) ==
    /\ exp_pc = "ready"
    /\ k \in DOMAIN issue_list
    /\ last_row' = to_row(issue_list[k])
    /\ UNCHANGED <<exp_pc, issue_list, files, first_files, table, now>>
    /\ UNCHANGED <<retryVars, parVars, probeVars, diagVars, callVars, cliVars, valVars, utilVars>>

PrintDiagnosticTable ==
    /\ exp_pc = "ready"
    /\ DoPrintTable
    /\ UNCHANGED <<exp_pc, issue_list, files, first_files, last_row, now>>
    /\ UNCHANGED <<retryVars, parVars, probeVars, diagVars, callVars, cliVars, valVars, utilVars>>

ExportJson ==
    /\ exp_pc = "ready"
    /\ DoExportJson
    /\ UNCHANGED <<exp_pc, issue_list, table, last_row, now>>
    /\ UNCHANGED <<retryVars, parVars, probeVars, diagVars, callVars, cliVars, valVars, utilVars>>

ExportCsv ==
    /\ exp_pc = "ready"
    /\ DoExportCsv
    /\ UNCHANGED <<exp_pc, issue_list, table, last_row, now>>
    /\ UNCHANGED <<retryVars, parVars, probeVars, diagVars, callVars, cliVars, valVars, utilVars>>

ExportHtml ==
    /\ exp_pc = "ready"
    /\ DoExportHtml
    /\ UNCHANGED <<exp_pc, issue_list, table, last_row, now>>
    /\ UNCHANGED <<retryVars, parVars, probeVars, diagVars, callVars, cliVars, valVars, utilVars>>

\* Time passes between two calls
Tick ==
    /\ exp_pc = "ready"
    /\ now < MaxClock
    /\ now' = now + 1
    /\ UNCHANGED <<exp_pc, issue_list, files, first_files, table, last_row>>
    /\ UNCHANGED <<retryVars, parVars, probeVars, diagVars, callVars, cliVars, valVars, utilVars>>

ExportNext ==
    \/ ExportStart
    \/ \E k \in 1..MaxRecords : ToRow(k)
    \/ PrintDiagnosticTable
    \/ ExportJson
    \/ ExportCsv
    \/ ExportHtml
    \/ Tick

----------------------------------------------------------------------------
(* cli.py: one invocation *)

NoExit == -1

CliIdle ==
    /\ cli_pc = "idle"
    /\ cli_args = [log_level |-> "INFO", full |-> FALSE,
                   json |-> FALSE, csv |-> FALSE, html |-> FALSE]
    /\ cli_log = <<>>
    /\ exit_code = NoExit
    /\ logger_level = "INFO"

\* validators.py:103, cli.py:52: the five documented levels
valid_levels == {"DEBUG", "INFO", "WARNING", "ERROR", "CRITICAL"}

\* The --log-level values of the model
LogLevelInputs == {"INFO", "debug", "warn", "BASIC_FORMAT", "INVALID", "verbose"}

\* str.upper() on them
UpperLevel(level) ==
    CASE level = "debug"   -> "DEBUG"
      [] level = "warn"    -> "WARN"
      [] level = "verbose" -> "VERBOSE"
      [] OTHER             -> level

\* getattr(logging, name): the upper-case attributes of the logging module
LoggingAttr(name) ==
    CASE name \in {"DEBUG", "INFO", "WARNING", "WARN", "ERROR", "CRITICAL",
                   "FATAL", "NOTSET"}
                              -> [kind |-> "int", name |-> name]
      [] name = "BASIC_FORMAT" -> [kind |-> "str", name |-> name]
      [] OTHER                 -> [kind |-> "AttributeError", name |-> name]

\* logger.setLevel(getattr(logging, level.upper())): logger.py:35.  An int
\* is taken as the level; the format string is not the name of a level
SetLevelAccepts(level) == LoggingAttr(UpperLevel(level)).kind = "int"

\* The run of diagnose_env the invocations of the model see
CliWorlds == { [p \in Probes |-> "healthy"] }

CliInvocations ==
    [log_level : LogLevelInputs, full : BOOLEAN,
     json : BOOLEAN, csv : BOOLEAN, html : BOOLEAN]

\* The process ends with this exit code
Exit(code) ==
    /\ cli_pc' = "exited"
    /\ exit_code' = code

\* main: the callback sets the logger up before the command runs:
\* cli.py:34-58, logger.py:34-35
CliMain ==
    /\ cli_pc = "idle"
    /\ \E a \in CliInvocations :
          /\ cli_args' = a
          /\ IF SetLevelAccepts(a.log_level)
             THEN /\ logger_level' = UpperLevel(a.log_level)
                  /\ cli_pc' = "diagnose"
                  /\ UNCHANGED exit_code
             ELSE \* AttributeError or ValueError leaves main
                  /\ Exit(1)
                  /\ UNCHANGED logger_level
    /\ UNCHANGED cli_log
    /\ UNCHANGED <<retryVars, parVars, probeVars, diagVars, callVars, exportVars, valVars, utilVars>>

\* diagnose: `issues = diagnose_env(full=full)` is entered: cli.py:82
CliDiagnose ==
    /\ cli_pc = "diagnose"
    /\ \E w \in CliWorlds : DiagEnter(cli_args.full, TRUE, w)
    /\ cli_pc' = "diagnosing"
    /\ UNCHANGED <<cli_args, cli_log, exit_code, logger_level>>
    /\ UNCHANGED <<retryVars, probeVars, callVars, exportVars, valVars, utilVars>>

\* diagnose_env has returned or raised: cli.py:82
CliDiagnosed ==
    /\ cli_pc = "diagnosing"
    /\ diag_pc = "done"
    /\ IF diag_outcome.kind = "return"
       THEN /\ issue_list' = diag_outcome.val
            /\ exp_pc' = "ready"
            /\ cli_pc' = "table"
            /\ UNCHANGED exit_code
       ELSE /\ Exit(1)
            /\ UNCHANGED <<issue_list, exp_pc>>
    /\ UNCHANGED <<cli_args, cli_log, logger_level>>
    /\ UNCHANGED <<files, first_files, table, last_row, now>>
    /\ UNCHANGED <<retryVars, parVars, probeVars, diagVars, callVars, valVars, utilVars>>

\* print_diagnostic_table(issues): cli.py:83
CliPrintTable ==
    /\ cli_pc = "table"
    /\ DoPrintTable
    /\ cli_log' = Append(cli_log, "table")
    /\ cli_pc' = "json"
    /\ UNCHANGED <<cli_args, exit_code, logger_level>>
    /\ UNCHANGED <<exp_pc, issue_list, files, first_files, last_row, now>>
    /\ UNCHANGED <<retryVars, parVars, probeVars, diagVars, callVars, valVars, utilVars>>

\* One `if <format>_output: export_<format>(issues, <format>_output)`: the
\* export is skipped, writes its file, or fails to write it and the
\* exception ends the process: cli.py:86-94
CliExport(f, DoExport, next) ==
    /\ cli_pc = f
    /\ IF ~cli_args[f]
       THEN /\ cli_pc' = next
            /\ UNCHANGED <<files, first_files, cli_log, exit_code>>
       ELSE \/ /\ DoExport
               /\ cli_log' = Append(cli_log, f)
               /\ cli_pc' = next
               /\ UNCHANGED exit_code
            \/ /\ Exit(1)
               /\ UNCHANGED <<files, first_files, cli_log>>
    /\ UNCHANGED <<cli_args, logger_level>>
    /\ UNCHANGED <<exp_pc, issue_list, table, last_row, now>>
    /\ UNCHANGED <<retryVars, parVars, probeVars, diagVars, callVars, valVars, utilVars>>

CliExportJson == CliExport("json", DoExportJson, "csv")
CliExportCsv == CliExport("csv", DoExportCsv, "html")
CliExportHtml == CliExport("html", DoExportHtml, "benchmark")

\* What benchmark_gpu_ops() may do
BenchmarkOutcomes == {"returns", "Exception", "KeyboardInterrupt"}

\* `if full:` the benchmark, in try/except Exception; then the command
\* ends: cli.py:96-108
CliBenchmark ==
    /\ cli_pc = "benchmark"
    /\ IF ~cli_args.full
       THEN Exit(0)
       ELSE \E o \in BenchmarkOutcomes :
               IF o = "KeyboardInterrupt" THEN Exit(1) ELSE Exit(0)
    /\ UNCHANGED <<cli_args, cli_log, logger_level>>
    /\ UNCHANGED <<retryVars, parVars, probeVars, diagVars, callVars, exportVars, valVars, utilVars>>

\* One invocation `mlenvdoctor --log-level L diagnose [--full] [--json P]
\* [--csv P] [--html P]`, with the thread pool of diagnose_env
CliNext ==
    \/ CliMain
    \/ CliDiagnose
    \/ \E i \in Futures : TaskStart(i)
    \/ \E i \in Futures : TaskFinish(i)
    \/ AsCompletedStart
    \/ AsCompletedWait
    \/ AsCompletedTimeout
    \/ WithResultsYield
    \/ WithResultsLoopEnd
    \/ ExecutorExit
    \/ DiagCoreCollect
    \/ DiagExtendedCollect
    \/ CliDiagnosed
    \/ CliPrintTable
    \/ CliExportJson
    \/ CliExportCsv
    \/ CliExportHtml
    \/ CliBenchmark

----------------------------------------------------------------------------
(* validators.py: one call of a validator *)

ValIdle ==
    /\ val_pc = "idle"
    /\ val_fn = "none"
    /\ val_arg = <<>>
    /\ val_result = [kind |-> "none"]

\* Python values: their type and their content.  A string is the sequence
\* of its characters.
PyStr(chars) == [type |-> "str", val |-> chars]
PyInt(n) == [type |-> "int", val |-> <<n>>]
PyFloat(n) == [type |-> "float", val |-> <<n>>]
PyNone == [type |-> "NoneType", val |-> <<>>]
PyList(xs) == [type |-> "list", val |-> xs]
PyTuple(xs) == [type |-> "tuple", val |-> xs]

\* `raise ConfigurationError(...)`
ConfigurationError == Raises(Exc("ConfigurationError", 0))

\* `pattern in arg` on strings
Occurs(pattern, arg) ==
    \E k \in 1..(Len(arg) - Len(pattern) + 1) :
        SubSeq(arg, k, k + Len(pattern) - 1) = pattern

\* validators.py:168 (the character ` is written "BACKQUOTE")
dangerous_patternsMutant ==
    << <<";">>, <<"&", "&">>, <<"|", "|">>, <<"BACKQUOTE">>, <<"<">>, <<">">>, <<"|">> >>
dangerous_patterns ==
    << <<";">>, <<"&", "&">>, <<"|", "|">>, <<"BACKQUOTE">>, <<"$", "(">>, <<"<">>, <<">">>,
       <<"|">> >>

\* `for pattern in dangerous_patterns: if pattern in arg`: validators.py:169-174
IsDangerous(arg) ==
    \E k \in DOMAIN dangerous_patterns : Occurs(dangerous_patterns[k], arg)

\* `for arg in cmd`: validators.py:160-176
RECURSIVE SanitizeLoop(_, _)
SanitizeLoop(rest, sanitized) ==
    IF rest = <<>> THEN Returns(PyList(sanitized))
    ELSE LET arg == Head(rest)
         IN  IF arg.type # "str" THEN ConfigurationError
             ELSE IF IsDangerous(arg.val) THEN ConfigurationError
             ELSE SanitizeLoop(Tail(rest), Append(sanitized, arg))

\* validators.py:140-178
sanitize_command(cmd) ==
    IF cmd.type # "list" \/ cmd.val = <<>>
    THEN ConfigurationError
    ELSE SanitizeLoop(cmd.val, <<>>)

\* The arguments of the model: harmless ones, one for every pattern, and
\* the single characters that are part of a pattern only
CommandStrings ==
    { <<"l", "s">>, <<>>, <<"-", "l", "a">>,
      <<"a", ";", "b">>, <<"a", "&", "&", "b">>, <<"a", "&", "b">>,
      <<"a", "|", "|", "b">>, <<"a", "|", "b">>, <<"BACKQUOTE", "x", "BACKQUOTE">>,
      <<"$", "(", "x", ")">>, <<"$", "x">>, <<"(", "x", ")">>, <<"$", " ", "(">>,
      <<"a", "<", "b">>, <<"a", ">", "b">> }

CommandArgs == {PyStr(a) : a \in CommandStrings} \cup {PyInt(123), PyNone}

CommandInputs ==
    {PyList(xs) : xs \in UNION { [1..n -> CommandArgs] : n \in 0..MaxCmdLen }}
        \cup {PyTuple(<<PyStr(<<"l", "s">>)>>), PyStr(<<"l", "s">>), PyNone}

ValSanitizeCommand ==
    /\ val_pc = "idle"
    /\ \E cmd \in CommandInputs :
          /\ val_arg' = <<cmd>>
          /\ val_result' = sanitize_command(cmd)
    /\ val_fn' = "sanitize_command"
    /\ val_pc' = "done"
    /\ UNCHANGED <<retryVars, parVars, probeVars, diagVars, callVars, exportVars, cliVars,
                   utilVars>>

\* Characters: "LF" is the line feed, "e-acute" a letter outside ASCII
Whitespace == {" ", "LF"}
Letters == {"a", "b", "B"}
Digits == {"7"}
NameAlphabet == {"a", "B", "7", ".", "_", "-", " ", "LF", ";", "e-acute"}

\* str.strip()
RECURSIVE LStrip(_)
LStrip(chars) ==
    IF chars # <<>> /\ Head(chars) \in Whitespace THEN LStrip(Tail(chars)) ELSE chars
RECURSIVE RStrip(_)
RStrip(chars) ==
    IF chars # <<>> /\ chars[Len(chars)] \in Whitespace
    THEN RStrip(SubSeq(chars, 1, Len(chars) - 1))
    ELSE chars
Strip(chars) == RStrip(LStrip(chars))

\* str.lower()
Lower(chars) == [k \in DOMAIN chars |-> IF chars[k] = "B" THEN "b" ELSE chars[k]]

\* re.match(r"^[a-zA-Z0-9._-]+$", name): `$` also matches before a line
\* feed that ends the string: validators.py:33
NameCharsMutant == Letters \cup Digits \cup {".", "_", "-", " "}
NameChars == Letters \cup Digits \cup {".", "_", "-"}
Matches(name) ==
    LET body == IF name # <<>> /\ name[Len(name)] = "LF"
                THEN SubSeq(name, 1, Len(name) - 1)
                ELSE name
    IN  /\ body # <<>>
        /\ \A k \in DOMAIN body : body[k] \in NameChars

\* validators.py:10-39
validate_model_name(model_name) ==
    IF model_name.type # "str" \/ model_name.val = <<>>
    THEN ConfigurationError
    ELSE LET stripped == Strip(model_name.val)
         IN  IF ~Matches(stripped)
             THEN ConfigurationError
             ELSE Returns(PyStr(Lower(stripped)))

ModelNameInputs ==
    {PyStr(cs) : cs \in UNION { [1..n -> NameAlphabet] : n \in 0..MaxNameLen }}
        \cup {PyNone, PyInt(0), PyInt(7), PyList(<<PyStr(<<"a">>)>>)}

ValValidateModelName ==
    /\ val_pc = "idle"
    /\ \E name \in ModelNameInputs :
          /\ val_arg' = <<name>>
          /\ val_result' = validate_model_name(name)
    /\ val_fn' = "validate_model_name"
    /\ val_pc' = "done"
    /\ UNCHANGED <<retryVars, parVars, probeVars, diagVars, callVars, exportVars, cliVars,
                   utilVars>>

\* The defaults of min_timeout and max_timeout: validators.py:181
DefaultMinTimeout == 1
DefaultMaxTimeout == 3600

\* `timeout < min_timeout`: validators.py:205
TooSmallMutant(t, min_timeout) == t <= min_timeout
TooSmall(t, min_timeout) == t < min_timeout

\* validators.py:181-217
validate_timeout(timeout, min_timeout, max_timeout) ==
    IF timeout = PyNone THEN Returns(PyNone)
    ELSE IF timeout.type # "int" THEN ConfigurationError
    ELSE IF TooSmall(timeout.val[1], min_timeout) THEN ConfigurationError
    ELSE IF timeout.val[1] > max_timeout THEN ConfigurationError
    ELSE Returns(timeout)

TimeoutInputs ==
    {PyInt(t) : t \in {-1, 0, 1, 2, 5, 10, 100, 3599, 3600, 3601, 10000}}
        \cup {PyNone, PyFloat(5), PyStr(<<"5">>)}

\* The limits a call is made with: the defaults, a narrower range, a single
\* value, an empty range
TimeoutLimits ==
    { <<DefaultMinTimeout, DefaultMaxTimeout>>, <<2, 100>>, <<5, 5>>, <<10, 5>> }

ValValidateTimeout ==
    /\ val_pc = "idle"
    /\ \E timeout \in TimeoutInputs, lim \in TimeoutLimits :
          /\ val_arg' = <<timeout, lim>>
          /\ val_result' = validate_timeout(timeout, lim[1], lim[2])
    /\ val_fn' = "validate_timeout"
    /\ val_pc' = "done"
    /\ UNCHANGED <<retryVars, parVars, probeVars, diagVars, callVars, exportVars, cliVars,
                   utilVars>>

ValNext ==
    \/ ValSanitizeCommand
    \/ ValValidateModelName
    \/ ValValidateTimeout

----------------------------------------------------------------------------
(* utils.py: run_command *)

CmdIdle ==
    /\ cmd_pc = "idle"
    /\ cmd_args = [cmd |-> PyNone, check |-> FALSE, timeout |-> PyNone]
    /\ cmd_log = <<>>
    /\ cmd_outcome = [kind |-> "none"]

\* ' '.join(cmd)
RECURSIVE Join(_)
Join(strs) ==
    IF strs = <<>> THEN <<>>
    ELSE IF Len(strs) = 1 THEN Head(strs).val
    ELSE Head(strs).val \o <<" ">> \o Join(Tail(strs))

\* console.print(f"[red]{text}[/red]") parses text as markup and raises
\* MarkupError for a closing tag that closes no tag opened in text: [/]
\* closes [red], and then [/red] has nothing to close.  No argument of the
\* model opens a tag of its own.
MarkupFails(text) ==
    \E i \in 1..(Len(text) - 2) :
        /\ text[i] = "["
        /\ text[i + 1] = "/"
        /\ \E j \in (i + 2)..Len(text) :
              /\ text[j] = "]"
              /\ \A k \in (i + 1)..(j - 1) : text[k] # "["

\* The except branches for TimeoutExpired and FileNotFoundError: the message
\* is printed, then DiagnosticError is raised from e; an exception of
\* console.print leaves the handler in its place: utils.py:60-73
PrintAndRaise(text, e) ==
    IF MarkupFails(text)
    THEN Raises(Exc("MarkupError", 0))
    ELSE Raises(RaiseFrom("DiagnosticError", e))

\* What the child process may do: end with an exit code, run into the
\* timeout (if there is one), or not start at all
SubprocessEvents(timeout) ==
    {"exit 0", "exit 1", "FileNotFoundError", "PermissionError"}
        \cup (IF timeout = PyNone THEN {} ELSE {"TimeoutExpired"})

\* subprocess.run(cmd, ..., check=check, timeout=timeout) and the except
\* clauses around it: utils.py:52-82
Execute(cmd, check, ev) ==
    CASE ev = "exit 0" -> [kind |-> "ret", val |-> [returncode |-> 0]]
      [] ev = "exit 1" ->
            \* with check, subprocess.run raises CalledProcessError, and the
            \* except clause raises it again
            IF check THEN Raises(Exc("CalledProcessError", 0))
            ELSE [kind |-> "ret", val |-> [returncode |-> 1]]
      [] ev = "TimeoutExpired" -> PrintAndRaise(Join(cmd.val), Exc("TimeoutExpired", 0))
      [] ev = "FileNotFoundError" ->
            PrintAndRaise(cmd.val[1].val, Exc("FileNotFoundError", 0))
      [] OTHER -> Raises(Exc(ev, 0))

\* The commands of the model: harmless ones, one whose executable and one
\* whose argument is the text [/], and ones sanitize_command refuses
RunCommandCmds ==
    { PyList(<<PyStr(<<"l", "s">>)>>),
      PyList(<<PyStr(<<"l", "s">>), PyStr(<<"-", "l", "a">>)>>),
      PyList(<<PyStr(<<"[", "/", "]">>)>>),
      PyList(<<PyStr(<<"l", "s">>), PyStr(<<"[", "/", "]">>)>>),
      PyList(<<PyStr(<<"l", "s">>), PyStr(<<"a", ";", "b">>)>>),
      PyList(<<PyStr(<<"l", "s">>), PyInt(123)>>),
      PyList(<<>>),
      PyStr(<<"l", "s">>) }

RunCommandTimeouts == {PyNone, PyInt(30), PyInt(1), PyInt(0), PyInt(3601), PyFloat(5)}

\* run_command(cmd, check=check, timeout=timeout) is called: utils.py:24-47
RunCommandCall ==
    /\ cmd_pc = "idle"
    /\ \E cmd \in RunCommandCmds, check \in BOOLEAN, timeout \in RunCommandTimeouts :
          cmd_args' = [cmd |-> cmd, check |-> check, timeout |-> timeout]
    /\ cmd_pc' = "validate"
    /\ UNCHANGED <<cmd_log, cmd_outcome>>
    /\ UNCHANGED <<retryVars, parVars, probeVars, diagVars, callVars, exportVars, cliVars,
                   valVars, logVars>>

\* `cmd = sanitize_command(cmd)` and `timeout = validate_timeout(timeout)`:
\* utils.py:49-50
RunCommandValidate ==
    /\ cmd_pc = "validate"
    /\ LET c == sanitize_command(cmd_args.cmd)
           t == validate_timeout(cmd_args.timeout, DefaultMinTimeout, DefaultMaxTimeout)
       IN  IF c.kind = "exc"
           THEN /\ cmd_log' = <<"sanitize_command">>
                /\ cmd_outcome' = [kind |-> "raise", val |-> c.val]
                /\ cmd_pc' = "done"
                /\ UNCHANGED cmd_args
           ELSE IF t.kind = "exc"
           THEN /\ cmd_log' = <<"sanitize_command", "validate_timeout">>
                /\ cmd_outcome' = [kind |-> "raise", val |-> t.val]
                /\ cmd_pc' = "done"
                /\ UNCHANGED cmd_args
           ELSE /\ cmd_log' = <<"sanitize_command", "validate_timeout">>
                /\ cmd_args' = [cmd_args EXCEPT !.cmd = c.val, !.timeout = t.val]
                /\ cmd_pc' = "run"
                /\ UNCHANGED cmd_outcome
    /\ UNCHANGED <<retryVars, parVars, probeVars, diagVars, callVars, exportVars, cliVars,
                   valVars, logVars>>

\* The try statement: utils.py:52-82
RunCommandExecute ==
    /\ cmd_pc = "run"
    /\ \E ev \in SubprocessEvents(cmd_args.timeout) :
          LET o == Execute(cmd_args.cmd, cmd_args.check, ev)
          IN  /\ cmd_log' = cmd_log \o <<"subprocess.run", ev>>
              /\ cmd_outcome' = IF o.kind = "exc"
                                THEN [kind |-> "raise", val |-> o.val]
                                ELSE [kind |-> "return", val |-> o.val]
    /\ cmd_pc' = "done"
    /\ UNCHANGED cmd_args
    /\ UNCHANGED <<retryVars, parVars, probeVars, diagVars, callVars, exportVars, cliVars,
                   valVars, logVars>>

CmdNext ==
    \/ RunCommandCall
    \/ RunCommandValidate
    \/ RunCommandExecute

----------------------------------------------------------------------------
(* logger.py: setup_logger and the messages logged afterwards *)

\* The logger after `import logging; logging.getLogger(name)`, before
\* setup_logger has run
LogIdle ==
    /\ log_pc = "idle"
    /\ log_level = "NOTSET"
    /\ handlers = <<>>
    /\ emitted = <<>>
    /\ console_lines = <<>>
    /\ file_lines = <<>>

\* The numeric value of a level of the logging module
LevelNo(name) ==
    CASE name = "DEBUG"    -> 10
      [] name = "INFO"     -> 20
      [] name = "WARNING"  -> 30
      [] name = "ERROR"    -> 40
      [] name = "CRITICAL" -> 50
      [] OTHER             -> 0

Handler(kind, level) == [kind |-> kind, level |-> level]

\* file_handler.setLevel(logging.DEBUG): logger.py:58
FileHandlerLevel == "DEBUG"

\* Logger.isEnabledFor: the logger drops a record below its own level before
\* any handler sees it
IsEnabledFor(level) == LevelNo(level) >= LevelNo(log_level)

\* Logger.callHandlers: `if record.levelno >= hdlr.level`
Handles(kind, level) ==
    \E k \in DOMAIN handlers :
        /\ handlers[k].kind = kind
        /\ LevelNo(level) >= LevelNo(handlers[k].level)

\* setup_logger(level=level, log_file=log_file), as main calls it with the
\* value of --log-level: logger.py:34-70, cli.py:56-58
SetupLogger ==
    /\ log_pc = "idle"
    /\ \E level \in valid_levels, log_file \in BOOLEAN :
          /\ log_level' = level
          /\ handlers' = <<Handler("console", level)>>
                            \o (IF log_file THEN <<Handler("file", FileHandlerLevel)>>
                                ELSE <<>>)
    /\ log_pc' = "ready"
    /\ UNCHANGED <<emitted, console_lines, file_lines>>
    /\ UNCHANGED <<retryVars, parVars, probeVars, diagVars, callVars, exportVars, cliVars,
                   valVars, cmdVars>>

\* logger.debug(...), logger.info(...), ... somewhere in the program
LogMessage(level) ==
    /\ log_pc = "ready"
    /\ Len(emitted) < MaxMessages
    /\ emitted' = Append(emitted, level)
    /\ console_lines' = IF IsEnabledFor(level) /\ Handles("console", level)
                        THEN Append(console_lines, level) ELSE console_lines
    /\ file_lines' = IF IsEnabledFor(level) /\ Handles("file", level)
                     THEN Append(file_lines, level) ELSE file_lines
    /\ UNCHANGED <<log_pc, log_level, handlers>>
    /\ UNCHANGED <<retryVars, parVars, probeVars, diagVars, callVars, exportVars, cliVars,
                   valVars, cmdVars>>

LogNext ==
    \/ SetupLogger
    \/ \E level \in valid_levels : LogMessage(level)


----------------------------------------------------------------------------
(* One call of one probe function *)

ProbeIdle ==
    /\ probe_pc = "idle"
    /\ probe_name = "none"
    /\ probe_env = <<>>
    /\ probe_result = [kind |-> "none"]

\* One call of one probe function in one environment
ProbeRun(p) ==
    /\ probe_pc = "idle"
    /\ \E env \in ProbeEnvs(p) :
          /\ probe_env' = env
          /\ probe_result' = Check(p, env)
    /\ probe_name' = p
    /\ probe_pc' = "done"
    /\ UNCHANGED <<retryVars, parVars, diagVars, callVars, restVars>>

ProbeNext == \E p \in Probes : ProbeRun(p)

----------------------------------------------------------------------------
(* check_internet_connectivity with the attempts of its retry_network wrapper *)

\* check_internet_connectivity() is called and calls _check_connectivity(),
\* the wrapper retry_network made: diagnose.py:420-428, retry.py:84-92, 41-45
NetCall ==
    /\ probe_pc = "idle"
    /\ retry_pc = "idle"
    /\ probe_name' = "check_internet_connectivity"
    /\ probe_pc' = "connecting"
    /\ retry_cfg' = RetryNetworkConfig
    /\ current_delay' = RetryNetworkConfig.delay
    /\ last_exception' = NoExc
    /\ attempt' = 1
    /\ retry_pc' = "loop"
    /\ UNCHANGED <<probe_env, probe_result, retry_calls, retry_log, retry_outcome>>
    /\ UNCHANGED <<parVars, diagVars, callVars, restVars>>

\* The wrapper has ended; the probe appends its record and returns, or the
\* exception leaves it: diagnose.py:427-448
NetReturn ==
    /\ probe_pc = "connecting"
    /\ retry_pc = "done"
    /\ probe_env' = [conn |-> retry_outcome]
    /\ probe_result' = check_internet_connectivity([conn |-> retry_outcome])
    /\ probe_pc' = "done"
    /\ UNCHANGED probe_name
    /\ UNCHANGED <<retryVars, parVars, diagVars, callVars, restVars>>

\* One attempt is one urlopen call: diagnose.py:421-425
NetNext ==
    \/ NetCall
    \/ RetryAttemptReturns
    \/ RetryAttemptPropagates
    \/ RetryAttemptFails
    \/ RetryExhausted
    \/ NetReturn

----------------------------------------------------------------------------

Init ==
    /\ RetryIdle /\ ParIdle /\ ProbeIdle /\ DiagIdle /\ CallsIdle
    /\ ExportIdle /\ CliIdle /\ ValIdle /\ CmdIdle /\ LogIdle

SpecRetry == Init /\ [][RetryNext]_vars

SpecPar == Init /\ [][ParNext]_vars

SpecProbe == Init /\ [][ProbeNext]_vars

SpecDiag == Init /\ [][DiagNext]_vars

\* The records of the program: a probe called on its own in any environment,
\* or a run of diagnose_env
RecordsNext ==
    \/ diag_pc = "idle" /\ ProbeNext
    \/ probe_pc = "idle" /\ DiagNext

SpecRecords == Init /\ [][RecordsNext]_vars

SpecExport == Init /\ [][ExportNext]_vars

SpecCli == Init /\ [][CliNext]_vars

SpecVal == Init /\ [][ValNext]_vars

SpecNet == Init /\ [][NetNext]_vars

SpecCmd == Init /\ [][CmdNext]_vars

SpecLog == Init /\ [][LogNext]_vars

\* `issues = diagnose_env(full=full)` has returned and
\* `print_diagnostic_table(issues)` prints the table and the summary:
\* cli.py:82-83
PrintSummary ==
    /\ diag_pc = "done"
    /\ diag_outcome.kind = "return"
    /\ exp_pc = "idle"
    /\ issue_list' = diag_outcome.val
    /\ exp_pc' = "ready"
    /\ table' = [printed |-> TRUE, shown |-> Table(diag_outcome.val)]
    /\ UNCHANGED <<files, first_files, last_row, now>>
    /\ UNCHANGED <<retryVars, parVars, probeVars, diagVars, callVars, cliVars, valVars,
                   utilVars>>

SummaryNext ==
    \/ DiagNext
    \/ PrintSummary

SpecSummary == Init /\ [][SummaryNext]_vars

----------------------------------------------------------------------------
(* Claims about the retry decorator, checked under SpecRetry *)

RECURSIVE Pow(_, _)
Pow(b, n) == IF n = 0 THEN 1 ELSE b * Pow(b, n - 1)

\* The exception of invocation i is caught by the except clause (stated on
\* the class hierarchy, not through IsListed)
CaughtBy(e, exceptions) ==
    \E j \in 1..Len(exceptions) : IsSubclass(e.type, exceptions[j])

RetryEvents(kinds, k) ==
    {j \in 1..Len(retry_log) : retry_log[j].ev \in kinds /\ retry_log[j].k = k}

\* C7: with max_attempts = n >= 1 the function is invoked at most n times;
\* the first invocation that succeeds is the last one, its value is what the
\* wrapper returns, and no sleep or on_retry call belongs to that attempt or
\* a later one.
C7_AtMostNFirstSuccessReturned ==
    retry_cfg.max_attempts >= 1 =>
       /\ Len(retry_calls) <= retry_cfg.max_attempts
       /\ \A i \in 1..Len(retry_calls) :
             retry_calls[i].kind = "return" =>
                /\ i = Len(retry_calls)
                /\ retry_pc = "done"
                /\ retry_outcome = [kind |-> "return", val |-> retry_calls[i].val]
                /\ \A j \in 1..Len(retry_log) : retry_log[j].k < i

C7_Witness ==
    /\ retry_pc = "done"
    /\ retry_cfg.max_attempts = 3
    /\ Len(retry_calls) = 2
    /\ retry_calls[1].kind = "raise"
    /\ retry_outcome = [kind |-> "return", val |-> 2]

\* C8: when all max_attempts (at least one) invocations raised exceptions the
\* except clause catches, the wrapper raises DiagnosticError whose cause is
\* the exception of the last invocation; an exception of an invocation that
\* leaves the wrapper is never a caught one.
C8_ExhaustedRaisesDiagnosticError ==
    /\ ( /\ retry_pc = "done"
         /\ retry_cfg.max_attempts >= 1
         /\ Len(retry_calls) = retry_cfg.max_attempts
         /\ \A i \in 1..Len(retry_calls) :
               /\ retry_calls[i].kind = "raise"
               /\ CaughtBy(retry_calls[i].val, retry_cfg.exceptions) )
       => /\ retry_outcome.kind = "raise"
          /\ retry_outcome.val.type = "DiagnosticError"
          /\ retry_outcome.val.cause_type = retry_calls[Len(retry_calls)].val.type
          /\ retry_outcome.val.cause_id = Len(retry_calls)
    /\ \A i \in 1..Len(retry_calls) :
          ( /\ retry_outcome.kind = "raise"
            /\ retry_calls[i].kind = "raise"
            /\ retry_outcome.val = retry_calls[i].val )
          => ~CaughtBy(retry_calls[i].val, retry_cfg.exceptions)

C8_Witness ==
    /\ retry_pc = "done"
    /\ retry_cfg.max_attempts = 3
    /\ Len(retry_calls) = 3
    /\ retry_calls[3] = [kind |-> "raise", val |-> Exc("OSError", 3)]
    /\ retry_outcome.kind = "raise"
    /\ retry_outcome.val.type = "DiagnosticError"

\* C9: an exception the except clause does not catch ends the wrapper at
\* once: it is the last invocation, the wrapper raises that very exception,
\* and no warning, on_retry call or sleep belongs to that attempt.
C9_UnlistedPropagatesAtOnce ==
    \A i \in 1..Len(retry_calls) :
       ( /\ retry_calls[i].kind = "raise"
         /\ ~CaughtBy(retry_calls[i].val, retry_cfg.exceptions) )
       => /\ i = Len(retry_calls)
          /\ retry_pc = "done"
          /\ retry_outcome = [kind |-> "raise", val |-> retry_calls[i].val]
          /\ \A j \in 1..Len(retry_log) : retry_log[j].k < i

C9_Witness ==
    /\ retry_pc = "done"
    /\ retry_cfg.exceptions = <<"ConnectionError">>
    /\ Len(retry_calls) = 2
    /\ retry_calls[1] = [kind |-> "raise", val |-> Exc("ConnectionError", 1)]
    /\ retry_calls[2] = [kind |-> "raise", val |-> Exc("OSError", 2)]
    /\ retry_outcome = [kind |-> "raise", val |-> Exc("OSError", 2)]

\* C10: between invocation k and invocation k+1 the wrapper sleeps exactly
\* once, for delay * backoff^(k-1); with an on_retry callback the event
\* right before that sleep is on_retry(exception of invocation k, k); no
\* sleep and no on_retry call belongs to attempt max_attempts; under the
\* arguments of retry_network the sleeps are 1 and 2.
C10_ExponentialBackoff ==
    /\ \A k \in 1..Len(retry_calls) :
          k < Len(retry_calls) => Cardinality(RetryEvents({"sleep"}, k)) = 1
    /\ \A j \in 1..Len(retry_log) :
          retry_log[j].ev = "sleep" =>
             /\ retry_log[j].d = retry_cfg.delay * Pow(retry_cfg.backoff, retry_log[j].k - 1)
             /\ retry_log[j].k < retry_cfg.max_attempts
             /\ retry_cfg.on_retry # "none" =>
                   /\ j > 1
                   /\ retry_log[j - 1] =
                        Event("on_retry", retry_log[j].k, retry_calls[retry_log[j].k].val, 0)
    /\ RetryEvents({"sleep", "on_retry"}, retry_cfg.max_attempts) = {}
    /\ retry_cfg = RetryNetworkConfig =>
          \A j \in RetryEvents({"sleep"}, 1) \cup RetryEvents({"sleep"}, 2) :
             retry_log[j].d = retry_log[j].k

C10_Witness ==
    /\ retry_cfg.delay = 2
    /\ retry_cfg.backoff = 3
    /\ retry_cfg.on_retry = "returns"
    /\ Len(retry_calls) = 3
    /\ \E j \in RetryEvents({"sleep"}, 2) : retry_log[j].d = 6

----------------------------------------------------------------------------
(* Claims about the parallel runner, checked under SpecPar *)

\* No call raised a BaseException that is not an Exception (KeyboardInterrupt,
\* SystemExit): the calls returned or raised what Python calls an error
OnlyExceptions ==
    \A i \in Futures :
       fut_result[i].kind = "exc" => IsSubclass(fut_result[i].val.type, "Exception")

\* C1: when run_parallel returns, element i of the list is the value that
\* func(items[i]) returned.
C1_ResultsInInputOrder ==
    ( /\ par_fn = "run_parallel"
      /\ par_pc = "done"
      /\ par_outcome.kind = "return" )
    => par_outcome.val = [i \in 1..Len(items_list) |-> i]

C3_TimeoutHandsControlBack ==
    ( /\ par_outcome = [kind |-> "raise", val |-> Exc("TimeoutError", 0)]
      /\ RunningFutures # {} )
    => par_pc = "done"

----------------------------------------------------------------------------
(* Claims about the probe functions, checked under SpecProbe *)

\* C6: whatever its external calls do, a probe function returns a list of
\* records; no exception leaves it.
C6_ProbesNeverRaise ==
    probe_pc = "done" => probe_result.kind = "ret"

----------------------------------------------------------------------------
(* Claims about diagnose_env *)

Range(s) == {s[i] : i \in DOMAIN s}

\* The probes a run selects
Selected == Range(core_checks) \cup (IF diag_args.full THEN Range(extended_checks) ELSE {})

\* A batch of the run did not finish within its timeout
DiagTimedOut == diag_outcome.kind = "raise" /\ diag_outcome.val.type = "TimeoutError"

LogLinesOf(p) == {i \in DOMAIN diag_log : diag_log[i].check = p}

\* recs appears in list, unbroken
Contains(list, recs) ==
    \E k \in 0..(Len(list) - Len(recs)) : SubSeq(list, k + 1, k + Len(recs)) = recs

\* C4: whatever each probe does (returns records or raises), in parallel and in
\* sequential mode, once diagnose_env has ended without a batch timeout it has
\* called every selected probe exactly once and no other probe, it has returned
\* the list all_issues, every raising probe is in the log exactly once, and the
\* records of every probe that returned are in the returned list.
C4_CatchLogContinue ==
    (diag_pc = "done" /\ ~DiagTimedOut) =>
        /\ diag_outcome.kind = "return"
        /\ diag_outcome.val = all_issues
        /\ \A p \in Probes :
              /\ calls[p] = (IF p \in Selected THEN 1 ELSE 0)
              /\ ended[p] = calls[p]
        /\ \A p \in Selected :
              LET o == ProbeOutcome(p, diag_world[p])
              IN  IF o.kind = "exc"
                  THEN Cardinality(LogLinesOf(p)) = 1
                  ELSE /\ LogLinesOf(p) = {}
                       /\ Contains(diag_outcome.val, o.val)

\* A full parallel run has returned although one of its probes raised
C4_Witness ==
    /\ diag_pc = "done"
    /\ diag_args.full
    /\ diag_args.parallel
    /\ diag_outcome.kind = "return"
    /\ \E p \in Probes : diag_world[p] = "raises"
    /\ \E p \in Probes : diag_world[p] = "healthy" /\ ProbeOutcome(p, "healthy").val # <<>>

\* What each check of a list did, in the order of the list
InListOrder(list, w) ==
    [i \in 1..Len(list) |-> <<list[i], ProbeOutcome(list[i], w[list[i]])>>]

\* The records of a sequential run: diagnose.py:502-516, 542-547
SequentialIssues(full, w) ==
    LET core == CollectCore(InListOrder(core_checks, w), [issues |-> <<>>, log |-> <<>>])
    IN  IF full
        THEN CollectExtended(InListOrder(extended_checks, w), core).issues
        ELSE core.issues

\* The sequential run returns exactly these records
SequentialReturnsInListOrder ==
    (diag_pc = "done" /\ ~diag_args.parallel) =>
        /\ diag_outcome.kind = "return"
        /\ diag_outcome.val = SequentialIssues(diag_args.full, diag_world)

\* C5: for the same probe outcomes the parallel run returns the sequence of
\* records the sequential run returns, the probes' groups in the order of the
\* probe lists, whichever probe thread finishes first.
C5_ParallelSameAsSequential ==
    (diag_pc = "done" /\ diag_args.parallel /\ diag_outcome.kind = "return") =>
        diag_outcome.val = SequentialIssues(diag_args.full, diag_world)

----------------------------------------------------------------------------
(* Claims about retry, continued *)

\* The exception of retry.py:70
RetryLogicFailed == Exc("RuntimeError", 0)

\* C11: for every max_attempts the decorator is given, a call of the wrapper
\* that has ended has invoked func at least once and has not ended with the
\* "Retry logic failed unexpectedly" RuntimeError: it returned func's value,
\* raised DiagnosticError or let an exception of func through.
C11_RuntimeErrorUnreachable ==
    retry_pc = "done" =>
        /\ Len(retry_calls) >= 1
        /\ ~(retry_outcome.kind = "raise" /\ retry_outcome.val = RetryLogicFailed)

----------------------------------------------------------------------------
(* Claims about diagnose_env, continued *)

\* No extended probe starts before every core probe has finished, and none
\* starts at all without --full
ExtendedAfterCore ==
    \A p \in Range(extended_checks) :
        calls[p] > 0 => /\ diag_args.full
                        /\ \A c \in Range(core_checks) : ended[c] = 1

\* The run has invoked exactly the probes it selects, each once
InvokedExactlySelected ==
    \A p \in Probes : calls[p] = (IF p \in Selected THEN 1 ELSE 0)

\* C12: diagnose_env(full=False) invokes exactly the three core probes,
\* diagnose_env(full=True) the three core and the four extended probes, and in
\* both modes no extended probe starts before every core probe has finished.
C12_CoreThenExtended ==
    /\ ExtendedAfterCore
    /\ diag_pc = "done" => InvokedExactlySelected

\* The same for the runs in which no batch times out
SelectionWithoutTimeout ==
    /\ ExtendedAfterCore
    /\ (diag_pc = "done" /\ ~DiagTimedOut) => InvokedExactlySelected

----------------------------------------------------------------------------
(* Claims about the records *)

WellFormed(rec) ==
    /\ rec.severity \in Severities
    /\ FirstToken(rec.status) \in StatusTokens

\* C13: every record a probe returns, in whatever environment, and every
\* record of the list diagnose_env returns, the record added for a raising
\* core check included, has a severity among critical, warning, info and a
\* status that begins with PASS, FAIL, WARN or INFO.
C13_RecordsWellFormed ==
    /\ (probe_pc = "done" /\ probe_result.kind = "ret") =>
            \A i \in DOMAIN probe_result.val : WellFormed(probe_result.val[i])
    /\ (diag_pc = "done" /\ diag_outcome.kind = "return") =>
            \A i \in DOMAIN diag_outcome.val : WellFormed(diag_outcome.val[i])

\* diagnose_env has returned a list that holds the record of a core check
\* that raised, next to records of probes
C13_Witness ==
    /\ diag_pc = "done"
    /\ diag_outcome.kind = "return"
    /\ \E p \in Range(core_checks) :
          /\ diag_world[p] = "raises"
          /\ \E i \in DOMAIN diag_outcome.val :
                diag_outcome.val[i].status = Status("FAIL", <<"Check error">>)
    /\ Len(diag_outcome.val) > 1

----------------------------------------------------------------------------
(* Claims about the renderers and exporters *)

\* A call leaves the list and its records as they are
ListUntouched == issue_list' = issue_list

\* C14: no to_row, print_diagnostic_table, export_json, export_csv or
\* export_html call changes a record or the list, and a repeated call, after
\* whatever other calls, produces the same content again: a file that is
\* exported again holds what it held, a table printed again shows the same.
C14_StatelessRenderers ==
    [][exp_pc = "ready" =>
          /\ ListUntouched
          /\ \A f \in Formats : files[f].exists => files'[f] = files[f]
          /\ table.printed => table' = table]_vars

\* The content of a file without the time of its generation
Untimed(f, file) ==
    CASE f = "json" -> [file EXCEPT !.content.metadata.timestamp = 0]
      [] f = "html" -> [file EXCEPT !.content.generated = 0]
      [] OTHER      -> file

\* C14, amended: the same, but the JSON document and the HTML page carry the
\* time of their generation, and only apart from it a repeated export
\* produces the same content.
C14_StatelessApartFromTime ==
    [][exp_pc = "ready" =>
          /\ ListUntouched
          /\ \A f \in Formats :
                files[f].exists => Untimed(f, files'[f]) = Untimed(f, files[f])
          /\ table.printed => table' = table]_vars

\* Each format has been exported from a list of records, the JSON document
\* twice at different times, and the table has been printed
C14_Witness ==
    /\ exp_pc = "ready"
    /\ Len(issue_list) > 0
    /\ \A f \in Formats : files[f].exists
    /\ files["json"].content.metadata.timestamp
          # first_files["json"].content.metadata.timestamp
    /\ table.printed
    /\ last_row # NoRow

\* The JSON document has one entry per record, in list order, with the
\* record's fields, and summary.total is the number of records
JsonCarriesRecords ==
    files["json"].exists =>
        LET doc == files["json"].content
        IN  /\ Len(doc.issues) = Len(issue_list)
            /\ doc.summary.total = Len(issue_list)
            /\ \A k \in DOMAIN issue_list :
                  /\ doc.issues[k].name = issue_list[k].name
                  /\ doc.issues[k].status = StatusText(issue_list[k].status)
                  /\ doc.issues[k].severity = issue_list[k].severity
                  /\ doc.issues[k].fix = issue_list[k].fix
                  /\ doc.issues[k].details = issue_list[k].details

\* The CSV file has the header row and then one row per record, in list
\* order, with the record's fields (no details: the empty field)
CsvCarriesRecords ==
    files["csv"].exists =>
        LET rows == files["csv"].content
        IN  /\ Len(rows) = Len(issue_list) + 1
            /\ rows[1] = <<"Issue", "Status", "Severity", "Fix", "Details">>
            /\ \A k \in DOMAIN issue_list :
                  rows[k + 1] = <<issue_list[k].name, StatusText(issue_list[k].status),
                                  issue_list[k].severity, issue_list[k].fix,
                                  IF issue_list[k].details = None THEN <<>>
                                  ELSE issue_list[k].details>>

\* The HTML table body has one row per record, in list order, whose cells
\* show the record's fields (an absent fix or details: "-")
HtmlCarriesRecords ==
    files["html"].exists =>
        LET rows == files["html"].content.rows
        IN  /\ Len(rows) = Len(issue_list)
            /\ \A k \in DOMAIN issue_list :
                  /\ CellText(rows[k].name) = <<issue_list[k].name>>
                  /\ CellText(rows[k].status) = StatusText(issue_list[k].status)
                  /\ rows[k].severity = Upper(issue_list[k].severity)
                  /\ CellText(rows[k].fix) = OrElse(issue_list[k].fix, <<"-">>)
                  /\ CellText(rows[k].details) = OrElse(issue_list[k].details, <<"-">>)

\* C15: each exporter emits exactly one entry per record, in list order, that
\* carries the record's name, status, severity, fix and details: the JSON
\* issues array, the CSV rows after the header row, the HTML table body rows;
\* and the JSON summary.total is the number of records.
C15_OneEntryPerRecord ==
    /\ JsonCarriesRecords
    /\ CsvCarriesRecords
    /\ HtmlCarriesRecords

\* The same for the JSON document and the CSV file alone
JsonAndCsvCarryRecords == JsonCarriesRecords /\ CsvCarriesRecords

----------------------------------------------------------------------------
(* Claims about the command line *)

\* File f holds the export of the list diagnose_env returned
DerivedFromRun(f) ==
    LET list == diag_outcome.val
    IN  CASE f = "json" ->
                files[f].content.issues = [k \in DOMAIN list |-> issue_to_dict(list[k])]
          [] f = "csv"  -> files[f].content = CsvDoc(list)
          [] OTHER      ->
                files[f].content.rows = [k \in DOMAIN list |-> HtmlRow(list[k])]

\* C16: a diagnose invocation that exits with code 0 has written every file
\* it was asked for; every file written holds the export of the one list the
\* one run of diagnose_env returned (no probe is called twice); and when a
\* file is written every selected probe has been called and has finished and
\* the table has been printed.
C16_ExportsAfterDiagnosis ==
    /\ exit_code = 0 => \A f \in Formats : cli_args[f] => files[f].exists
    /\ \A f \in Formats :
          files[f].exists =>
              /\ diag_pc = "done"
              /\ diag_outcome.kind = "return"
              /\ DerivedFromRun(f)
              /\ \A p \in Probes : calls[p] <= 1 /\ ended[p] = calls[p]
              /\ \A p \in Selected : calls[p] = 1
              /\ table.printed
              /\ cli_log[1] = "table"

\* A full invocation asked for all three files and has exited with code 0
C16_Witness ==
    /\ cli_pc = "exited"
    /\ exit_code = 0
    /\ cli_args.full
    /\ \A f \in Formats : cli_args[f] /\ files[f].exists
    /\ cli_log = <<"table", "json", "csv", "html">>
    /\ Len(issue_list) > 0

\* The invocation has ended in main, with a nonzero exit code, before
\* diagnose_env was entered
RejectedInMain == cli_pc = "exited" /\ exit_code # 0 /\ diag_pc = "idle"

\* C17: a --log-level value is accepted if and only if it is, whatever its
\* case, one of DEBUG, INFO, WARNING, ERROR, CRITICAL; with any other value
\* the invocation ends with a nonzero exit code before a probe is run.
C17_OnlyFiveLevelsAccepted ==
    cli_pc # "idle" =>
        /\ RejectedInMain <=> UpperLevel(cli_args.log_level) \notin valid_levels
        /\ RejectedInMain => \A p \in Probes : calls[p] = 0

\* The five levels are accepted, and a rejected invocation runs no probe
FiveLevelsAccepted ==
    cli_pc # "idle" =>
        /\ UpperLevel(cli_args.log_level) \in valid_levels => ~RejectedInMain
        /\ RejectedInMain => \A p \in Probes : calls[p] = 0

----------------------------------------------------------------------------
(* Claims about the validators *)

\* ; && || ` $( < > |
ShellPatterns ==
    { <<";">>, <<"&", "&">>, <<"|", "|">>, <<"BACKQUOTE">>, <<"$", "(">>, <<"<">>,
      <<">">>, <<"|">> }

\* A non-empty list of strings none of which contains a shell pattern
CleanCommand(cmd) ==
    /\ cmd.type = "list"
    /\ Len(cmd.val) >= 1
    /\ \A k \in DOMAIN cmd.val :
          /\ cmd.val[k].type = "str"
          /\ \A pat \in ShellPatterns : ~Occurs(pat, cmd.val[k].val)

\* C18: sanitize_command returns a non-empty list of strings without shell
\* patterns element for element as it is, and raises ConfigurationError on
\* every other input.
C18_SanitizeCommand ==
    (val_pc = "done" /\ val_fn = "sanitize_command") =>
        LET cmd == val_arg[1]
        IN  IF CleanCommand(cmd)
            THEN /\ val_result.kind = "ret"
                 /\ val_result.val.type = "list"
                 /\ Len(val_result.val.val) = Len(cmd.val)
                 /\ \A k \in DOMAIN cmd.val : val_result.val.val[k] = cmd.val[k]
            ELSE /\ val_result.kind = "exc"
                 /\ val_result.val.type = "ConfigurationError"

\* A command of two arguments, one of them with "$" and no "(" after it, was
\* accepted
C18_Witness ==
    /\ val_pc = "done"
    /\ val_fn = "sanitize_command"
    /\ val_result.kind = "ret"
    /\ Len(val_arg[1].val) = 2
    /\ val_arg[1].val[2] = PyStr(<<"$", "x">>)

\* Letters, digits, dots, underscores and hyphens
AllowedInNames == {"a", "b", "B", "7", ".", "_", "-"}

\* C19: validate_model_name returns the stripped, lower-cased name if the
\* input is a non-empty string whose stripped form is a non-empty sequence of
\* letters, digits, dots, underscores and hyphens, raises ConfigurationError
\* on every other input, and returns its outputs as they are.
C19_ValidateModelName ==
    (val_pc = "done" /\ val_fn = "validate_model_name") =>
        LET name == val_arg[1]
            good == /\ name.type = "str"
                    /\ name.val # <<>>
                    /\ Strip(name.val) # <<>>
                    /\ \A k \in DOMAIN Strip(name.val) :
                          Strip(name.val)[k] \in AllowedInNames
        IN  IF good
            THEN /\ val_result = Returns(PyStr(Lower(Strip(name.val))))
                 /\ validate_model_name(val_result.val) = val_result
            ELSE /\ val_result.kind = "exc"
                 /\ val_result.val.type = "ConfigurationError"

\* A name with an upper-case letter and whitespace around it was accepted
C19_Witness ==
    /\ val_pc = "done"
    /\ val_fn = "validate_model_name"
    /\ val_arg[1] = PyStr(<<" ", "B", "LF">>)
    /\ val_result = Returns(PyStr(<<"b">>))

\* C20: validate_timeout returns its input as it is if the input is None or
\* an integer between min_timeout and max_timeout, both included, and raises
\* ConfigurationError on every other value.
C20_ValidateTimeout ==
    (val_pc = "done" /\ val_fn = "validate_timeout") =>
        LET timeout == val_arg[1]
            lim == val_arg[2]
            good == \/ timeout.type = "NoneType"
                    \/ /\ timeout.type = "int"
                       /\ lim[1] <= timeout.val[1]
                       /\ timeout.val[1] <= lim[2]
        IN  IF good
            THEN val_result = Returns(timeout)
            ELSE /\ val_result.kind = "exc"
                 /\ val_result.val.type = "ConfigurationError"

\* With the default limits the smallest timeout, 1, was accepted
C20_Witness ==
    /\ val_pc = "done"
    /\ val_fn = "validate_timeout"
    /\ val_arg = <<PyInt(1), <<1, 3600>>>>
    /\ val_result = Returns(PyInt(1))

----------------------------------------------------------------------------
(* Claims about diagnose_env: the batch timeout *)

\* C21: in parallel mode a run of diagnose_env that has ended has returned a
\* list and has not raised, also when a batch did not finish within its
\* timeout, and the list holds the records of every probe of the run whose
\* call had returned records.
C21_BatchTimeoutHandled ==
    (diag_pc = "done" /\ diag_args.parallel) =>
        /\ diag_outcome.kind = "return"
        /\ \A p \in Selected :
              LET o == ProbeOutcome(p, diag_world[p])
              IN  (ended[p] = 1 /\ o.kind = "ret") => Contains(diag_outcome.val, o.val)

----------------------------------------------------------------------------
(* Claims about run_parallel, continued *)

\* The exception of parallel.py:63
OnlySomeCompleted == Exc("RuntimeError", 0)

\* C22: a call of run_parallel that has ended has either returned a list of
\* exactly n results, all n calls having returned, or raised the exception
\* of a call that failed, or (given a timeout) raised TimeoutError; it has
\* not returned fewer than n results and has not raised the RuntimeError
\* "Only k/n tasks completed".
C22_ThreeOutcomes ==
    (par_pc = "done" /\ par_fn = "run_parallel") =>
        /\ \/ /\ par_outcome.kind = "return"
              /\ Len(par_outcome.val) = Len(items_list)
              /\ \A i \in Futures : fut_result[i].kind = "ret"
           \/ /\ par_outcome.kind = "raise"
              /\ \E i \in Futures : /\ fut_result[i].kind = "exc"
                                    /\ par_outcome.val = fut_result[i].val
           \/ /\ par_outcome.kind = "raise"
              /\ par_cfg.timeout
              /\ par_outcome.val = Exc("TimeoutError", 0)
        /\ ~(par_outcome.kind = "raise" /\ par_outcome.val = OnlySomeCompleted)

\* run_parallel has re-raised the exception of a failed call after it had
\* collected the result of another
C22_Witness ==
    /\ par_pc = "done"
    /\ par_fn = "run_parallel"
    /\ par_outcome.kind = "raise"
    /\ par_outcome.val.type = "ValueError"
    /\ results # <<>>
    /\ Len(results) < Len(items_list)

----------------------------------------------------------------------------
(* Claims about diagnose_env: the records of a probe that raised *)

\* The probe was called in this run and its call raised
Raised(p) ==
    /\ calls[p] = 1
    /\ ended[p] = 1
    /\ ProbeOutcome(p, diag_world[p]).kind = "exc"

\* The places of list that hold the record of the claim for the probe
SyntheticRecords(list, p) ==
    {k \in DOMAIN list :
        /\ list[k].name = TitleOf(p)
        /\ list[k].status = [token |-> "FAIL", parts |-> <<"Check error">>]
        /\ list[k].severity = "critical"
        /\ list[k].details = <<StrOf(ProbeOutcome(p, diag_world[p]).val)>>}

\* The number of records the probes of a list that were called add to
\* all_issues, by the two rules
RECURSIVE Contributions(_, _)
Contributions(list, synthetic) ==
    IF list = <<>> THEN 0
    ELSE LET p == Head(list)
             o == ProbeOutcome(p, diag_world[p])
         IN  (IF calls[p] = 0 THEN 0
              ELSE IF o.kind = "exc" THEN synthetic
              ELSE Len(o.val))
             + Contributions(Tail(list), synthetic)

RaisingProbeRules ==
    /\ \A p \in Range(core_checks) :
          Raised(p) => /\ Cardinality(SyntheticRecords(all_issues, p)) = 1
                       /\ {diag_log[i].level : i \in LogLinesOf(p)} = {"error"}
    /\ \A p \in Range(extended_checks) :
          Raised(p) => /\ SyntheticRecords(all_issues, p) = {}
                       /\ Cardinality(LogLinesOf(p)) = 1
                       /\ {diag_log[i].level : i \in LogLinesOf(p)} = {"warning"}
    /\ Len(all_issues) = Contributions(core_checks, 1) + Contributions(extended_checks, 0)

RaisingProbeRulesWithoutTimeout ==
    (diag_pc = "done" /\ ~DiagTimedOut) => RaisingProbeRules

----------------------------------------------------------------------------
(* Claims about check_internet_connectivity, checked under SpecNet *)

\* The attempts of the call that reached the hub
Succeeded == {k \in DOMAIN retry_calls : retry_calls[k].kind = "return"}

\* C24: a call of check_internet_connectivity that has ended has made at most
\* 3 attempts and has returned exactly one record; the record is PASS with
\* severity info exactly when an attempt succeeded, and that attempt is the
\* last one made; otherwise the record is WARN with severity warning and
\* three attempts have failed.
C24_ThreeAttemptsOneRecord ==
    (probe_pc = "done" /\ probe_name = "check_internet_connectivity") =>
        /\ Len(retry_calls) <= 3
        /\ probe_result.kind = "ret"
        /\ Len(probe_result.val) = 1
        /\ LET rec == probe_result.val[1]
           IN  IF Succeeded # {}
               THEN /\ rec.status.token = "PASS"
                    /\ rec.severity = "info"
                    /\ Succeeded = {Len(retry_calls)}
               ELSE /\ rec.status.token = "WARN"
                    /\ rec.severity = "warning"
                    /\ Len(retry_calls) = 3

\* The same where every failed attempt raised a ConnectionError, a
\* TimeoutError or another OSError
RetriedConnectivityRules ==
    (\A k \in DOMAIN retry_calls :
        retry_calls[k].kind = "raise" => IsSubclass(retry_calls[k].val.type, "OSError"))
    => C24_ThreeAttemptsOneRecord

----------------------------------------------------------------------------
(* Claims about run_command, checked under SpecCmd *)

\* None, or an int within the default limits
AcceptableTimeout(timeout) ==
    \/ timeout = PyNone
    \/ timeout.type = "int" /\ timeout.val[1] >= 1 /\ timeout.val[1] <= 3600

Logged(what) == \E k \in DOMAIN cmd_log : cmd_log[k] = what

\* No subprocess is started unless both validators accepted, and a refused
\* call ends with ConfigurationError
ValidatedBeforeExecuted ==
    /\ Logged("subprocess.run") =>
          /\ CleanCommand(cmd_args.cmd)
          /\ AcceptableTimeout(cmd_args.timeout)
          /\ cmd_log[1] = "sanitize_command"
          /\ cmd_log[2] = "validate_timeout"
          /\ cmd_log[3] = "subprocess.run"
    /\ (cmd_pc = "done" /\ ~(CleanCommand(cmd_args.cmd) /\ AcceptableTimeout(cmd_args.timeout))) =>
          /\ cmd_outcome.kind = "raise"
          /\ cmd_outcome.val.type = "ConfigurationError"
          /\ ~Logged("subprocess.run")

\* With check=False a nonzero exit code is returned
NonzeroExitReturned ==
    (cmd_pc = "done" /\ ~cmd_args.check /\ Logged("exit 1")) =>
        /\ cmd_outcome.kind = "return"
        /\ cmd_outcome.val.returncode = 1

\* C25: run_command starts no subprocess unless sanitize_command accepted the
\* command and validate_timeout the timeout; a call the validators refuse
\* ends with ConfigurationError and has executed nothing; a call whose
\* command timed out or whose executable is missing ends with
\* DiagnosticError; and with check=False a nonzero exit code is returned.
C25_ValidateThenExecute ==
    /\ ValidatedBeforeExecuted
    /\ NonzeroExitReturned
    /\ (cmd_pc = "done" /\ (Logged("TimeoutExpired") \/ Logged("FileNotFoundError"))) =>
          /\ cmd_outcome.kind = "raise"
          /\ cmd_outcome.val.type = "DiagnosticError"

\* The parts of the claim about validation and exit codes
ValidationAndExitCodes ==
    /\ ValidatedBeforeExecuted
    /\ NonzeroExitReturned

----------------------------------------------------------------------------
(* Claims about the logger, checked under SpecLog *)

FileConfigured == \E k \in DOMAIN handlers : handlers[k].kind = "file"

\* The messages of a sequence of levels that are at or above a level
RECURSIVE AtOrAbove(_, _)
AtOrAbove(levels, level) ==
    IF levels = <<>> THEN <<>>
    ELSE (IF LevelNo(Head(levels)) >= LevelNo(level) THEN <<Head(levels)>> ELSE <<>>)
         \o AtOrAbove(Tail(levels), level)

\* C26: with a log file configured, every message the program has logged at
\* DEBUG or above is in the file, whatever level was chosen; the chosen level
\* restricts the console only.
C26_EverythingToFile ==
    (log_pc = "ready" /\ FileConfigured) =>
        /\ file_lines = emitted
        /\ console_lines = AtOrAbove(emitted, log_level)

\* What the file gets: the messages at or above the chosen level, as the
\* console
FileGetsChosenLevel ==
    (log_pc = "ready" /\ FileConfigured) =>
        /\ file_lines = AtOrAbove(emitted, log_level)
        /\ console_lines = AtOrAbove(emitted, log_level)

----------------------------------------------------------------------------
(* Claims about the thread pool, checked under SpecPar *)

\* How often an item is in the input list
Occurrences(x) == Cardinality({i \in Futures : items_list[i] = x})

\* C27: func is never invoked more often on an item than the item is in the
\* input list, and when run_parallel or run_parallel_with_results has ended,
\* by returning, by the exception of a call or by the timeout, func has been
\* invoked and has come back exactly once for every item of the list: every
\* submitted task has run, none was cancelled.
C27_OncePerItem ==
    /\ \A x \in ItemSet : calls[x] <= Occurrences(x)
    /\ par_pc = "done" =>
          /\ \A x \in ItemSet : calls[x] = Occurrences(x) /\ ended[x] = calls[x]
          /\ \A i \in Futures : fut_state[i] = "finished"

\* run_parallel with one worker has re-raised the exception of the first of
\* three calls when as_completed had yielded nothing else and was waiting
\* for the other two, the third of which had not started; both have run
C27_Witness ==
    /\ par_pc = "done"
    /\ par_fn = "run_parallel"
    /\ par_cfg.max_workers = 1
    /\ Len(items_list) = 3
    /\ fut_result[1].kind = "exc"
    /\ par_outcome = [kind |-> "raise", val |-> fut_result[1].val]
    /\ pending = {2, 3}
    /\ finished = <<>>
    /\ waiter_finished = <<>>
    /\ \A x \in ItemSet : calls[x] = Occurrences(x)

----------------------------------------------------------------------------
(* Claims about the summary counts, checked under SpecSummary *)

\* The buckets of the summary a record is counted in
Buckets(i) ==
    {b \in {"passed", "warnings", "critical"} :
        \/ b = "passed" /\ IsPass(i)
        \/ b = "warnings" /\ IsWarning(i)
        \/ b = "critical" /\ IsCritical(i)}

\* Every record whose status token is FAIL or WARN is counted in warnings or
\* in critical
FailuresCounted ==
    table.printed =>
        \A k \in DOMAIN issue_list :
            issue_list[k].status.token \in {"FAIL", "WARN"} =>
                Buckets(issue_list[k]) \cap {"warnings", "critical"} # {}

\* C28: when the summary of a list diagnose_env returned has been printed,
\* every record of the list is counted in at most one of passed, warnings and
\* critical, so that passed + warnings + critical <= total, and every record
\* whose status token is FAIL or WARN is counted in warnings or in critical.
C28_SummaryBuckets ==
    table.printed =>
        /\ \A k \in DOMAIN issue_list : Cardinality(Buckets(issue_list[k])) <= 1
        /\ table.shown.passed + table.shown.warnings + table.shown.critical
              <= Len(issue_list)
        /\ FailuresCounted

====
